---- MODULE Spec2Model ----
(***************************************************************************)
(* Model of the Curator agent's AI-relevance scan                          *)
(* (src/app/agents/curator/tools.py): _scan_stock_for_ai, _keyword_scoring,*)
(* _categorize_stock and _llm_validation; and of the trading_universe      *)
(* table as _update_trading_universe, _get_trading_universe and            *)
(* load_russell3000 (src/scripts/load_russell3000.py) write and read it.   *)
(*                                                                         *)
(* Python str values are modelled as sequences of one-character strings,   *)
(* so that `keyword in text`, str.lower(), str.upper() and str.strip()     *)
(* are computed character by character, as the interpreter computes them.  *)
(***************************************************************************)
EXTENDS Integers, Sequences, FiniteSets, TLC

VARIABLES
    apiKey,         \* os.getenv('FINNHUB_API_KEY') is set
    rawTicker,      \* the ticker argument of _scan_stock_for_ai
    sources,        \* which data sources answer: "full", "batch" or "store"
    pc,             \* position of the running scan
    ticker,         \* ticker after ticker.upper().strip()
    company_name,   \* locals of _keyword_scoring
    sector,
    score,
    evidence,
    profileResp,    \* what requests.get(profile_url) answered in this scan
    newsResp,       \* what requests.get(news_url) answered in this scan
    stage1,         \* the dict returned by _keyword_scoring
    llmCalls,       \* number of _llm_validation invocations in this scan
    llm_result,     \* the dict returned by _llm_validation
    returned,       \* the value _scan_stock_for_ai returned
    results,        \* per normalized ticker, the last value returned to the caller
    supabase,       \* app.extensions.supabase is a client (not None)
    trading_universe, \* the rows of the trading_universe table
    now,            \* the clock read by datetime.utcnow()
    call,           \* the last call on the universe: operation and arguments
    reply,          \* what that call returned
    inflight,       \* per thread, its call of _update_trading_universe in flight
    started,        \* the rows of trading_universe when the threads started
    alerts_file,    \* ALERTS_FILE on disk
    add_alert,      \* per request, the add_alert handler serving it
    curated,        \* one universe record and its watchlist status, as the Curator sees them
    rules_left,     \* the promotion rules the Curator has yet to apply in this cycle
    cycle_start,    \* the record and its watchlist status when the cycle began
    edgar           \* the call of _fetch_edgar_ai_mentions: arguments, response, outcome

\* the scan
scanVars ==
    << apiKey, rawTicker, sources, pc, ticker, company_name,
       sector, score, evidence, profileResp, newsResp, stage1, llmCalls,
       llm_result, returned, results >>

\* the universe store and the last call on it
storeVars ==
    << supabase, trading_universe, now, call, reply >>

\* two calls of _update_trading_universe on two threads
raceVars ==
    << inflight, started >>

\* the alerts file of the dashboard and the requests that add to it
alertVars ==
    << alerts_file, add_alert >>

\* one cycle of the Curator's promotion rules on one universe record
policyVars ==
    << curated, rules_left, cycle_start >>

\* what neither a scan nor a single call on the universe touches
otherVars ==
    << raceVars, alertVars, policyVars, edgar >>

vars ==
    << apiKey, rawTicker, sources, pc, ticker, company_name,
       sector, score, evidence, profileResp, newsResp, stage1, llmCalls,
       llm_result, returned, results, supabase, trading_universe, now, call, reply,
       inflight, started, alerts_file, add_alert, curated, rules_left, cycle_start,
       edgar >>

-----------------------------------------------------------------------------
(* Python str operations on character sequences *)

UpperCaseChars ==
    << "A","B","C","D","E","F","G","H","I","J","K","L","M",
       "N","O","P","Q","R","S","T","U","V","W","X","Y","Z" >>

LowerCaseChars ==
    << "a","b","c","d","e","f","g","h","i","j","k","l","m",
       "n","o","p","q","r","s","t","u","v","w","x","y","z" >>

Whitespace ==
    {" ", "\t", "\n", "\r"}

\* str.lower() on one character
LowerOf ==
    [c \in {UpperCaseChars[i] : i \in 1..Len(UpperCaseChars)} |->
        LowerCaseChars[CHOOSE i \in 1..Len(UpperCaseChars) : UpperCaseChars[i] = c]]

\* str.upper() on one character
UpperOf ==
    [c \in {LowerCaseChars[i] : i \in 1..Len(LowerCaseChars)} |->
        UpperCaseChars[CHOOSE i \in 1..Len(LowerCaseChars) : LowerCaseChars[i] = c]]

\* str.lower()
Lower(s) ==
    [i \in 1..Len(s) |-> IF s[i] \in DOMAIN LowerOf THEN LowerOf[s[i]] ELSE s[i]]

\* str.upper()
Upper(s) ==
    [i \in 1..Len(s) |-> IF s[i] \in DOMAIN UpperOf THEN UpperOf[s[i]] ELSE s[i]]

\* str.strip()
Strip(s) ==
    LET keep == {i \in 1..Len(s) : s[i] \notin Whitespace}
    IN  IF keep = {} THEN <<>>
        ELSE SubSeq(s, CHOOSE i \in keep : \A j \in keep : i <= j,
                       CHOOSE i \in keep : \A j \in keep : i >= j)

\* `k in t` for two str values
Contains(k, t) ==
    \/ Len(k) = 0
    \/ \E i \in 1..(Len(t) - Len(k) + 1) :
           /\ t[i] = k[1]
           /\ SubSeq(t, i, i + Len(k) - 1) = k

\* sep.join(parts)
RECURSIVE Join(_, _)
Join(parts, sep) ==
    IF parts = <<>> THEN <<>>
    ELSE IF Len(parts) = 1 THEN parts[1]
    ELSE parts[1] \o sep \o Join(Tail(parts), sep)

\* seq[:n]
Take(seq, n) ==
    SubSeq(seq, 1, IF Len(seq) < n THEN Len(seq) ELSE n)

\* the elements of a sequence
Range(seq) ==
    {seq[i] : i \in 1..Len(seq)}

\* min(a, b)
Min(a, b) ==
    IF a < b THEN a ELSE b

-----------------------------------------------------------------------------
(* AI_KEYWORDS *)

\* AI_KEYWORDS['tier1']['keywords']
Tier1Keywords ==
    <<
       <<"a","r","t","i","f","i","c","i","a","l"," ","i","n","t","e","l","l","i","g","e","n","c","e">>,  \* 'artificial intelligence'
       <<"m","a","c","h","i","n","e"," ","l","e","a","r","n","i","n","g">>,  \* 'machine learning'
       <<"d","e","e","p"," ","l","e","a","r","n","i","n","g">>,  \* 'deep learning'
       <<"n","e","u","r","a","l"," ","n","e","t","w","o","r","k">>,  \* 'neural network'
       <<"l","a","r","g","e"," ","l","a","n","g","u","a","g","e"," ","m","o","d","e","l">>,  \* 'large language model'
       <<"l","l","m">>,  \* 'llm'
       <<"g","e","n","e","r","a","t","i","v","e"," ","a","i">>,  \* 'generative ai'
       <<"g","p","t">>,  \* 'gpt'
       <<"t","r","a","n","s","f","o","r","m","e","r"," ","m","o","d","e","l">>,  \* 'transformer model'
       <<"a","i"," ","c","h","i","p">>,  \* 'ai chip'
       <<"g","p","u"," ","i","n","f","e","r","e","n","c","e">>,  \* 'gpu inference'
       <<"n","v","i","d","i","a"," ","g","p","u">>,  \* 'nvidia gpu'
       <<"n","e","u","r","a","l"," ","p","r","o","c","e","s","s","o","r">>,  \* 'neural processor'
       <<"t","p","u">>,  \* 'tpu'
       <<"a","i"," ","a","c","c","e","l","e","r","a","t","o","r">>   \* 'ai accelerator'
    >>

\* AI_KEYWORDS['tier2']['keywords']
Tier2Keywords ==
    <<
       <<"o","p","e","n","a","i"," ","p","a","r","t","n","e","r","s","h","i","p">>,  \* 'openai partnership'
       <<"a","n","t","h","r","o","p","i","c">>,  \* 'anthropic'
       <<"a","i"," ","p","a","r","t","n","e","r","s","h","i","p">>,  \* 'ai partnership'
       <<"d","a","t","a"," ","c","e","n","t","e","r">>,  \* 'data center'
       <<"c","l","o","u","d"," ","a","i">>,  \* 'cloud ai'
       <<"a","i","-","p","o","w","e","r","e","d">>,  \* 'ai-powered'
       <<"a","i"," ","i","n","t","e","g","r","a","t","i","o","n">>,  \* 'ai integration'
       <<"a","u","t","o","m","a","t","i","o","n">>,  \* 'automation'
       <<"p","r","e","d","i","c","t","i","v","e"," ","a","n","a","l","y","t","i","c","s">>,  \* 'predictive analytics'
       <<"c","o","m","p","u","t","e","r"," ","v","i","s","i","o","n">>,  \* 'computer vision'
       <<"n","a","t","u","r","a","l"," ","l","a","n","g","u","a","g","e"," ","p","r","o","c","e","s","s","i","n","g">>,  \* 'natural language processing'
       <<"n","l","p">>,  \* 'nlp'
       <<"a","i"," ","m","o","d","e","l">>   \* 'ai model'
    >>

\* AI_KEYWORDS['tier3']['keywords']
Tier3Keywords ==
    <<
       <<"a","l","g","o","r","i","t","h","m">>,  \* 'algorithm'
       <<"d","a","t","a"," ","s","c","i","e","n","c","e">>,  \* 'data science'
       <<"a","n","a","l","y","t","i","c","s"," ","p","l","a","t","f","o","r","m">>,  \* 'analytics platform'
       <<"i","n","t","e","l","l","i","g","e","n","t">>,  \* 'intelligent'
       <<"s","m","a","r","t"," ","t","e","c","h","n","o","l","o","g","y">>,  \* 'smart technology'
       <<"a","u","t","o","m","a","t","e","d">>   \* 'automated'
    >>

\* AI_KEYWORDS['tier1']['categories']['ai_chip']
CategoryKeywords_ai_chip ==
    <<
       <<"g","p","u">>,  \* 'gpu'
       <<"a","i"," ","c","h","i","p">>,  \* 'ai chip'
       <<"n","e","u","r","a","l"," ","p","r","o","c","e","s","s","o","r">>,  \* 'neural processor'
       <<"t","p","u">>,  \* 'tpu'
       <<"a","i"," ","a","c","c","e","l","e","r","a","t","o","r">>,  \* 'ai accelerator'
       <<"n","v","i","d","i","a">>,  \* 'nvidia'
       <<"c","u","d","a">>   \* 'cuda'
    >>

\* AI_KEYWORDS['tier1']['categories']['ai_software']
CategoryKeywords_ai_software ==
    <<
       <<"l","l","m">>,  \* 'llm'
       <<"g","e","n","e","r","a","t","i","v","e"," ","a","i">>,  \* 'generative ai'
       <<"a","i"," ","p","l","a","t","f","o","r","m">>,  \* 'ai platform'
       <<"a","i"," ","a","g","e","n","t">>,  \* 'ai agent'
       <<"c","h","a","t","g","p","t">>,  \* 'chatgpt'
       <<"g","p","t">>   \* 'gpt'
    >>

\* ai_cloud keywords that take in the tier-2 keyword 'cloud ai'
CategoryKeywords_ai_cloud_CloudAi ==
    <<
       <<"a","i"," ","i","n","f","e","r","e","n","c","e">>,  \* 'ai inference'
       <<"m","o","d","e","l"," ","t","r","a","i","n","i","n","g">>,  \* 'model training'
       <<"a","i"," ","i","n","f","r","a","s","t","r","u","c","t","u","r","e">>,  \* 'ai infrastructure'
       <<"g","p","u"," ","c","l","o","u","d">>,  \* 'gpu cloud'
       <<"c","l","o","u","d"," ","a","i">>   \* 'cloud ai'
    >>

\* AI_KEYWORDS['tier1']['categories']['ai_cloud']
CategoryKeywords_ai_cloud ==
    <<
       <<"a","i"," ","i","n","f","e","r","e","n","c","e">>,  \* 'ai inference'
       <<"m","o","d","e","l"," ","t","r","a","i","n","i","n","g">>,  \* 'model training'
       <<"a","i"," ","i","n","f","r","a","s","t","r","u","c","t","u","r","e">>,  \* 'ai infrastructure'
       <<"g","p","u"," ","c","l","o","u","d">>   \* 'gpu cloud'
    >>

\* the categories tried in another order
CategoryOrder_SoftwareFirst ==
    << "ai_software", "ai_chip", "ai_cloud" >>

\* AI_KEYWORDS['tier1']['categories'], in dict order
CategoryOrder ==
    << "ai_chip", "ai_software", "ai_cloud" >>

CategoryKeywords(c) ==
    CASE c = "ai_chip" -> CategoryKeywords_ai_chip
      [] c = "ai_software" -> CategoryKeywords_ai_software
      [] c = "ai_cloud" -> CategoryKeywords_ai_cloud

Tier1Points ==
    10

Tier2Points ==
    5

ScoreCap ==
    100

ArticleLimit ==
    10

EvidenceLimit ==
    5

HasAiThreshold ==
    40

BandLow ==
    30

BandHigh ==
    70

-----------------------------------------------------------------------------
(* string literals of the scan *)

\* "Description: '"
EvDescriptionPrefix ==
    <<"D","e","s","c","r","i","p","t","i","o","n",":"," ","'">>
\* "'"
EvDescriptionSuffix ==
    <<"'">>
\* "News: '"
EvNewsPrefix ==
    <<"N","e","w","s",":"," ","'">>
\* "' in headline"
EvNewsSuffix ==
    <<"'"," ","i","n"," ","h","e","a","d","l","i","n","e">>
\* ' | '
EvidenceSeparator ==
    <<" ","|"," ">>
\* ' '
Space ==
    <<" ">>
\* ' | LLM: '
LlmPrefix ==
    <<" ","|"," ","L","L","M",":"," ">>
\* 'LLM validation not implemented yet - using keyword scoring'
LlmReasoning ==
    <<"L","L","M"," ","v","a","l","i","d","a","t","i","o","n"," ","n","o","t"," ","i","m","p","l","e","m","e","n","t","e","d"," ","y","e","t"," ","-"," ","u","s","i","n","g"," ","k","e","y","w","o","r","d"," ","s","c","o","r","i","n","g">>

\* f"Description: '{keyword}'"
DescriptionEvidence(keyword) ==
    EvDescriptionPrefix \o keyword \o EvDescriptionSuffix

\* f"News: '{keyword}' in headline"
NewsEvidence(keyword) ==
    EvNewsPrefix \o keyword \o EvNewsSuffix

-----------------------------------------------------------------------------
(* inputs: tickers, company profiles and news *)

\* ' nvda '
RawNvdaPadded ==
    <<" ","n","v","d","a"," ">>
\* 'Mcd'
RawMcd ==
    <<"M","c","d">>
\* 'NVIDIA Corp'
NameNvidia ==
    <<"N","V","I","D","I","A"," ","C","o","r","p">>
\* "McDonald's"
NameMcd ==
    <<"M","c","D","o","n","a","l","d","'","s">>
\* ''
DescEmpty ==
    <<>>
\* 'Quick-service burgers and fries'
DescBurgers ==
    <<"Q","u","i","c","k","-","s","e","r","v","i","c","e"," ","b","u","r","g","e","r","s"," ","a","n","d"," ","f","r","i","e","s">>
\* 'Intelligent algorithm for data science'
DescTier3Only ==
    <<"I","n","t","e","l","l","i","g","e","n","t"," ","a","l","g","o","r","i","t","h","m"," ","f","o","r"," ","d","a","t","a"," ","s","c","i","e","n","c","e">>
\* 'Record factory output'
DescOutput ==
    <<"R","e","c","o","r","d"," ","f","a","c","t","o","r","y"," ","o","u","t","p","u","t">>
\* 'Designs the AI Chip and Neural Processor lines'
DescChipExample ==
    <<"D","e","s","i","g","n","s"," ","t","h","e"," ","A","I"," ","C","h","i","p"," ","a","n","d"," ","N","e","u","r","a","l"," ","P","r","o","c","e","s","s","o","r"," ","l","i","n","e","s">>
\* 'Generative AI running on its own AI chip'
DescSoftwareAndChip ==
    <<"G","e","n","e","r","a","t","i","v","e"," ","A","I"," ","r","u","n","n","i","n","g"," ","o","n"," ","i","t","s"," ","o","w","n"," ","A","I"," ","c","h","i","p">>
\* 'ChatGPT automation'
DescChatgpt ==
    <<"C","h","a","t","G","P","T"," ","a","u","t","o","m","a","t","i","o","n">>
\* 'Data center operator'
DescDataCenter ==
    <<"D","a","t","a"," ","c","e","n","t","e","r"," ","o","p","e","r","a","t","o","r">>
\* 'AI infrastructure and cloud AI for model training'
DescCloud ==
    <<"A","I"," ","i","n","f","r","a","s","t","r","u","c","t","u","r","e"," ","a","n","d"," ","c","l","o","u","d"," ","A","I"," ","f","o","r"," ","m","o","d","e","l"," ","t","r","a","i","n","i","n","g">>
\* 'Machine learning, deep learning, computer vision'
DescScore25 ==
    <<"M","a","c","h","i","n","e"," ","l","e","a","r","n","i","n","g",","," ","d","e","e","p"," ","l","e","a","r","n","i","n","g",","," ","c","o","m","p","u","t","e","r"," ","v","i","s","i","o","n">>
\* 'Machine learning, deep learning, neural network'
DescScore30 ==
    <<"M","a","c","h","i","n","e"," ","l","e","a","r","n","i","n","g",","," ","d","e","e","p"," ","l","e","a","r","n","i","n","g",","," ","n","e","u","r","a","l"," ","n","e","t","w","o","r","k">>
\* 'Artificial intelligence, machine learning, deep learning, neural network, large language model, AI chip'
DescScore60 ==
    <<"A","r","t","i","f","i","c","i","a","l"," ","i","n","t","e","l","l","i","g","e","n","c","e",","," ","m","a","c","h","i","n","e"," ","l","e","a","r","n","i","n","g",","," ","d","e","e","p"," ","l","e","a","r","n","i","n","g",","," ","n","e","u","r","a","l"," ","n","e","t","w","o","r","k",","," ","l","a","r","g","e"," ","l","a","n","g","u","a","g","e"," ","m","o","d","e","l",","," ","A","I"," ","c","h","i","p">>
\* 'Quarterly results'
HeadPlain ==
    <<"Q","u","a","r","t","e","r","l","y"," ","r","e","s","u","l","t","s">>
\* 'Revenue grew'
SumPlain ==
    <<"R","e","v","e","n","u","e"," ","g","r","e","w">>
\* 'Nvidia GPU demand'
HeadTier1 ==
    <<"N","v","i","d","i","a"," ","G","P","U"," ","d","e","m","a","n","d">>
\* 'AI chip orders rise'
SumTier1 ==
    <<"A","I"," ","c","h","i","p"," ","o","r","d","e","r","s"," ","r","i","s","e">>
\* 'OpenAI partnership expands'
HeadTier1Tier2 ==
    <<"O","p","e","n","A","I"," ","p","a","r","t","n","e","r","s","h","i","p"," ","e","x","p","a","n","d","s">>
\* 'Generative AI for the data center'
SumTier1Tier2 ==
    <<"G","e","n","e","r","a","t","i","v","e"," ","A","I"," ","f","o","r"," ","t","h","e"," ","d","a","t","a"," ","c","e","n","t","e","r">>
\* 'Predictive analytics and automation'
SumTier2 ==
    <<"P","r","e","d","i","c","t","i","v","e"," ","a","n","a","l","y","t","i","c","s"," ","a","n","d"," ","a","u","t","o","m","a","t","i","o","n">>
\* 'Smart technology'
HeadTier3 ==
    <<"S","m","a","r","t"," ","t","e","c","h","n","o","l","o","g","y">>
\* 'Automated analytics platform'
SumTier3 ==
    <<"A","u","t","o","m","a","t","e","d"," ","a","n","a","l","y","t","i","c","s"," ","p","l","a","t","f","o","r","m">>

\* None
PyNone ==
    "<None>"

\* a key that the JSON object does not carry
KeyMissing ==
    "<missing>"

\* the value under a key of a JSON object: a str, null, or no such key
JStr(s) ==
    [kind |-> "str", val |-> s]

JNull ==
    [kind |-> "null", val |-> <<>>]

JAbsent ==
    [kind |-> "absent", val |-> <<>>]

RawTickers ==
    {RawNvdaPadded, RawMcd}

Descriptions ==
    { DescEmpty, DescBurgers, DescTier3Only, DescOutput, DescChipExample,
      DescSoftwareAndChip, DescChatgpt, DescDataCenter, DescCloud, DescScore25,
      DescScore30, DescScore60 }

\* profile_response.json() of a company that Finnhub knows
Profile(name, industry, description) ==
    [status |-> "data", name |-> name, finnhubIndustry |-> industry,
     description |-> description]

\* requests.get or .json() raised: network error, timeout, malformed body
ProfileError ==
    [status |-> "error", name |-> JAbsent, finnhubIndustry |-> KeyMissing,
     description |-> JAbsent]

\* a falsy body: {}
ProfileEmpty ==
    [status |-> "empty", name |-> JAbsent, finnhubIndustry |-> KeyMissing,
     description |-> JAbsent]

ProfileResponses ==
    {ProfileError, ProfileEmpty}
    \cup {Profile(JStr(NameNvidia), "Semiconductors", JStr(d)) : d \in Descriptions}
    \cup { Profile(JAbsent, KeyMissing, JAbsent),
           Profile(JStr(NameMcd), "Restaurants", JNull),
           Profile(JAbsent, KeyMissing, JStr(DescSoftwareAndChip)) }

Article(headline, summary) ==
    [headline |-> headline, summary |-> summary]

ArticlePlain ==
    Article(JStr(HeadPlain), JStr(SumPlain))

\* two tier-1 keywords in one article
ArticleTier1 ==
    Article(JStr(HeadTier1), JStr(SumTier1))

\* one tier-1 keyword and three tier-2 keywords in one article
ArticleTier1Tier2 ==
    Article(JStr(HeadTier1Tier2), JStr(SumTier1Tier2))

\* tier-2 keywords only, and no headline key
ArticleTier2 ==
    Article(JAbsent, JStr(SumTier2))

ArticleTier3 ==
    Article(JStr(HeadTier3), JStr(SumTier3))

\* "headline": null
ArticleNullHeadline ==
    Article(JNull, JStr(SumTier1))

BulkArticles ==
    {ArticlePlain, ArticleTier1, ArticleTier1Tier2}

Articles ==
    BulkArticles \cup {ArticleTier2, ArticleTier3, ArticleNullHeadline}

\* longest news list the News Source answers with
MaxNewsLen ==
    11

Repeat(a, n) ==
    [i \in 1..n |-> a]

\* n articles of one kind, then at most one article of another kind, then
\* at most one more of the first kind
NewsLists ==
    { Repeat(a, n) \o tail \o Repeat(a, m) :
        a \in BulkArticles, n \in 0..(MaxNewsLen - 1), m \in 0..1,
        tail \in {<<>>} \cup {<<b>> : b \in Articles} }

\* news_response.json() is a list of articles
NewsList(articles) ==
    [status |-> "list", articles |-> articles]

\* requests.get or .json() raised, or the body is not a list
NewsError ==
    [status |-> "error", articles |-> <<>>]

NewsResponses ==
    {NewsError} \cup {NewsList(l) : l \in {l \in NewsLists : Len(l) <= MaxNewsLen}}

\* the data sources of a batch of scans
BatchProfileSource ==
    { ProfileError,
      Profile(JStr(NameNvidia), "Semiconductors", JStr(DescChipExample)),
      Profile(JStr(NameNvidia), "Semiconductors", JStr(DescScore30)),
      Profile(JStr(NameNvidia), "Semiconductors", JStr(DescTier3Only)) }

BatchNewsSource ==
    { NewsError, NewsList(<<>>), NewsList(<<ArticleTier1Tier2>>),
      NewsList(<<ArticleTier1, ArticleTier3>>) }

\* the data sources of a scan between calls on the universe store
StoreProfileSource ==
    {Profile(JStr(NameNvidia), "Semiconductors", JStr(DescChipExample))}

StoreNewsSource ==
    {NewsList(<<ArticleTier1Tier2>>)}

\* the responses the Company Profile Source can give
ProfileSource(src) ==
    IF src = "full" THEN ProfileResponses
    ELSE IF src = "batch" THEN BatchProfileSource
    ELSE StoreProfileSource

\* the responses the News Source can give
NewsSource(src) ==
    IF src = "full" THEN NewsResponses
    ELSE IF src = "batch" THEN BatchNewsSource
    ELSE StoreNewsSource

-----------------------------------------------------------------------------
(* the result dicts *)

ResultKeys ==
    {"ticker", "company_name", "sector", "has_ai", "score", "category", "evidence"}

ErrorKeys ==
    {"ticker", "error", "has_ai", "score"}

\* a dict: keys is the set of keys it carries; a field whose key is not in
\* keys holds a placeholder
Dict(keys, t, name, sec, hasAi, sc, cat, ev, err) ==
    [keys |-> keys, ticker |-> t, company_name |-> name, sector |-> sec,
     has_ai |-> hasAi, score |-> sc, category |-> cat, evidence |-> ev,
     error |-> err]

\* no dict yet
NoResult ==
    Dict({}, <<>>, <<>>, PyNone, FALSE, 0, PyNone, <<>>, "")

\* no validator answer yet
NoLlmResult ==
    [adjusted_score |-> 0, category |-> PyNone, reasoning |-> <<>>]

NoResponse ==
    [status |-> "none"]

-----------------------------------------------------------------------------
(* _keyword_scoring *)

\* ticker.upper().strip()
NormalizeTicker(t) ==
    Strip(Upper(t))

Tickers ==
    {NormalizeTicker(t) : t \in RawTickers}

\* d.get(key, '').lower() raises AttributeError on a null value
LowerRaises(j) ==
    j.kind = "null"

\* d.get(key, '').lower()
GetLower(j) ==
    IF j.kind = "str" THEN Lower(j.val) ELSE <<>>

\* the loops over one tier's keywords and the description
RECURSIVE DescriptionLoop(_, _, _, _)
DescriptionLoop(keywords, points, description, acc) ==
    IF keywords = <<>> THEN acc
    ELSE LET keyword == Head(keywords)
             next == IF Contains(keyword, description)
                     THEN [score |-> acc.score + points,
                           evidence |-> Append(acc.evidence, DescriptionEvidence(keyword))]
                     ELSE acc
         IN  DescriptionLoop(Tail(keywords), points, description, next)

\* a description scored on the tier-3 keywords too, 2 points each
ScoreDescription_WithTier3(description, acc) ==
    DescriptionLoop(Tier3Keywords, 2, description,
        DescriptionLoop(Tier2Keywords, Tier2Points, description,
            DescriptionLoop(Tier1Keywords, Tier1Points, description, acc)))

\* the body of `if profile_data:` from the description on
ScoreDescription(description, acc) ==
    DescriptionLoop(Tier2Keywords, Tier2Points, description,
        DescriptionLoop(Tier1Keywords, Tier1Points, description, acc))

\* index of the keyword a `for keyword ...: if keyword in text: ... break`
\* loop stops at, 0 when it runs to its end
RECURSIVE FirstMatchFrom(_, _, _)
FirstMatchFrom(keywords, text, i) ==
    IF i > Len(keywords) THEN 0
    ELSE IF Contains(keywords[i], text) THEN i
    ELSE FirstMatchFrom(keywords, text, i + 1)

FirstMatch(keywords, text) ==
    FirstMatchFrom(keywords, text, 1)

\* f"{headline} {summary}"
ArticleText(article) ==
    GetLower(article.headline) \o Space \o GetLower(article.summary)

\* one pass of the body of `for article in news_data[:10]`
ScoreArticle(article, acc) ==
    LET text == ArticleText(article)
        i1 == FirstMatch(Tier1Keywords, text)
        a1 == IF i1 > 0
              THEN [score |-> acc.score + Tier1Points,
                    evidence |-> Append(acc.evidence, NewsEvidence(Tier1Keywords[i1]))]
              ELSE acc
    IN  IF FirstMatch(Tier2Keywords, text) > 0
        THEN [a1 EXCEPT !.score = @ + Tier2Points]
        ELSE a1

\* an article whose headline or summary is null makes .lower() raise
ArticleRaises(article) ==
    LowerRaises(article.headline) \/ LowerRaises(article.summary)

\* `for article in news_data[:10]`, left by the first exception
RECURSIVE ArticleLoop(_, _)
ArticleLoop(articles, acc) ==
    IF articles = <<>> THEN acc
    ELSE IF ArticleRaises(Head(articles)) THEN acc
    ELSE ArticleLoop(Tail(articles), ScoreArticle(Head(articles), acc))

\* the article loop without the [:10] slice
ScoreNews_NoLimit(news_data, acc) ==
    ArticleLoop(news_data, acc)

\* a news stage that throws its points away when an article raises
ScoreNews_AllOrNothing(news_data, acc) ==
    IF \E i \in 1..Len(Take(news_data, ArticleLimit)) : ArticleRaises(news_data[i])
    THEN acc
    ELSE ArticleLoop(Take(news_data, ArticleLimit), acc)

\* news_data[:10] and the loop over it
ScoreNews(news_data, acc) ==
    ArticleLoop(Take(news_data, ArticleLimit), acc)

\* the loop over the categories and their keywords
RECURSIVE CategoryLoop(_, _)
CategoryLoop(categories, evidence_text) ==
    IF categories = <<>> THEN "ai_beneficiary"
    ELSE IF FirstMatch(CategoryKeywords(Head(categories)), evidence_text) > 0
    THEN Head(categories)
    ELSE CategoryLoop(Tail(categories), evidence_text)

\* _categorize_stock(evidence)
CategorizeStock(ev) ==
    CategoryLoop(CategoryOrder, Lower(Join(ev, Space)))

\* the score left uncapped
CapScore_NoCap(s) ==
    s

\* score = min(score, 100)
CapScore(s) ==
    Min(s, ScoreCap)

\* category of the returned dict: `category or 'ai_beneficiary'`, where
\* category is None unless score > 0
KeywordCategory(s, ev) ==
    LET category == IF s > 0 THEN CategorizeStock(ev) ELSE PyNone
    IN  IF category = PyNone THEN "ai_beneficiary" ELSE category

\* the flag computed with a strict comparison
HasAi_Strict(s) ==
    s > HasAiThreshold

\* 'has_ai': score >= 40
HasAi(s) ==
    s >= HasAiThreshold

\* the dict _keyword_scoring returns
KeywordResult(t, name, sec, s, ev) ==
    Dict(ResultKeys, t, name, sec, HasAi(CapScore(s)), CapScore(s),
         KeywordCategory(CapScore(s), ev),
         Join(Take(ev, EvidenceLimit), EvidenceSeparator), "")

-----------------------------------------------------------------------------
(* _llm_validation and the second stage *)

\* a validator that leaves the window it was given
LlmValidation_OutOfWindow(t, stage1_result) ==
    [adjusted_score |-> stage1_result.score + 25,
     category |-> stage1_result.category,
     reasoning |-> LlmReasoning]

\* the dict _llm_validation returns
LlmValidation(t, stage1_result) ==
    [adjusted_score |-> stage1_result.score,
     category |-> stage1_result.category,
     reasoning |-> LlmReasoning]

\* the band test with its endpoints left out
NeedsValidation_Exclusive(s) ==
    BandLow < s /\ s < BandHigh

\* 30 <= result['score'] <= 70
NeedsValidation(s) ==
    BandLow <= s /\ s <= BandHigh

\* result after the three assignments of the borderline branch
ApplyValidation(result, llm) ==
    [result EXCEPT !.score = llm.adjusted_score,
                   !.category = llm.category,
                   !.evidence = @ \o LlmPrefix \o llm.reasoning]

\* the dict of the except branch
ErrorResult(t, message) ==
    Dict(ErrorKeys, t, <<>>, PyNone, FALSE, 0, PyNone, <<>>, message)

-----------------------------------------------------------------------------
(* the trading_universe table and the values its columns hold *)

\* a column that is NULL
Null ==
    <<>>

\* a column that holds v
Some(v) ==
    <<v>>

\* datetime.utcnow().isoformat() at clock value t
IsoFormat(t) ==
    <<t>>

\* one row of trading_universe
Row(t, name, sec, cat, sc, active, note, scanned, mention, deactivated) ==
    [ticker |-> t, company_name |-> name, sector |-> sec, category |-> cat,
     score |-> sc, is_active |-> active, notes |-> note, last_scanned |-> scanned,
     last_mention |-> mention, deactivated_at |-> deactivated]

\* the columns of a row that is inserted with nothing but its ticker
DefaultRow(t) ==
    Row(t, Null, Null, Null, 0, TRUE, Null, Null, Null, Null)

HasRow(tbl, t) ==
    \E r \in tbl : r.ticker = t

RowOf(tbl, t) ==
    CHOOSE r \in tbl : r.ticker = t

TickersOf(tbl) ==
    {r.ticker : r \in tbl}

\* a payload of upsert(): the columns it carries and their values
Payload(cols, row) ==
    [cols |-> cols, row |-> row]

\* a merge that adds the payload's score to the stored score
Merge_Accumulate(old, p) ==
    Row(old.ticker,
        IF "company_name" \in p.cols THEN p.row.company_name ELSE old.company_name,
        IF "sector" \in p.cols THEN p.row.sector ELSE old.sector,
        IF "category" \in p.cols THEN p.row.category ELSE old.category,
        IF "score" \in p.cols THEN old.score + p.row.score ELSE old.score,
        IF "is_active" \in p.cols THEN p.row.is_active ELSE old.is_active,
        IF "notes" \in p.cols THEN p.row.notes ELSE old.notes,
        IF "last_scanned" \in p.cols THEN p.row.last_scanned ELSE old.last_scanned,
        IF "last_mention" \in p.cols THEN p.row.last_mention ELSE old.last_mention,
        IF "deactivated_at" \in p.cols THEN p.row.deactivated_at ELSE old.deactivated_at)

\* a merge that keeps a record inactive once it was deactivated
Merge_StaysInactive(old, p) ==
    Row(old.ticker,
        IF "company_name" \in p.cols THEN p.row.company_name ELSE old.company_name,
        IF "sector" \in p.cols THEN p.row.sector ELSE old.sector,
        IF "category" \in p.cols THEN p.row.category ELSE old.category,
        IF "score" \in p.cols THEN p.row.score ELSE old.score,
        IF "is_active" \in p.cols /\ old.deactivated_at = Null
        THEN p.row.is_active ELSE old.is_active,
        IF "notes" \in p.cols THEN p.row.notes ELSE old.notes,
        IF "last_scanned" \in p.cols THEN p.row.last_scanned ELSE old.last_scanned,
        IF "last_mention" \in p.cols THEN p.row.last_mention ELSE old.last_mention,
        IF "deactivated_at" \in p.cols THEN p.row.deactivated_at ELSE old.deactivated_at)

\* ON CONFLICT (ticker) DO UPDATE over the columns the payload carries
Merge(old, p) ==
    Row(old.ticker,
        IF "company_name" \in p.cols THEN p.row.company_name ELSE old.company_name,
        IF "sector" \in p.cols THEN p.row.sector ELSE old.sector,
        IF "category" \in p.cols THEN p.row.category ELSE old.category,
        IF "score" \in p.cols THEN p.row.score ELSE old.score,
        IF "is_active" \in p.cols THEN p.row.is_active ELSE old.is_active,
        IF "notes" \in p.cols THEN p.row.notes ELSE old.notes,
        IF "last_scanned" \in p.cols THEN p.row.last_scanned ELSE old.last_scanned,
        IF "last_mention" \in p.cols THEN p.row.last_mention ELSE old.last_mention,
        IF "deactivated_at" \in p.cols THEN p.row.deactivated_at ELSE old.deactivated_at)

\* an upsert that deletes the row its payload deactivates
Upsert_DeleteInactive(tbl, p) ==
    {r \in tbl : r.ticker # p.row.ticker}
        \cup (IF "is_active" \in p.cols /\ ~p.row.is_active THEN {}
              ELSE {Merge(IF HasRow(tbl, p.row.ticker) THEN RowOf(tbl, p.row.ticker)
                          ELSE DefaultRow(p.row.ticker), p)})

\* an upsert that replaces the whole row by the payload
Upsert_Replace(tbl, p) ==
    {r \in tbl : r.ticker # p.row.ticker}
        \cup {Merge(DefaultRow(p.row.ticker), p)}

\* an upsert that writes back the table as it was when the threads started,
\* with its own row merged in
Upsert_OnSnapshot(tbl, p) ==
    {r \in started : r.ticker # p.row.ticker}
        \cup {Merge(IF HasRow(started, p.row.ticker) THEN RowOf(started, p.row.ticker)
                    ELSE DefaultRow(p.row.ticker), p)}

\* supabase.table('trading_universe').upsert(p).execute()
Upsert(tbl, p) ==
    {r \in tbl : r.ticker # p.row.ticker}
        \cup {Merge(IF HasRow(tbl, p.row.ticker) THEN RowOf(tbl, p.row.ticker)
                    ELSE DefaultRow(p.row.ticker), p)}

RECURSIVE UpsertAll(_, _)
\* upsert(batch, on_conflict='ticker').execute() over a list of payloads
UpsertAll(tbl, batch) ==
    IF batch = <<>> THEN tbl
    ELSE UpsertAll(Upsert(tbl, Head(batch)), Tail(batch))

(* the arguments of _update_trading_universe *)

\* 'NVDA'
RawNvda ==
    <<"N","V","D","A">>

\* 'Semiconductors'
SectorSemis ==
    <<"S","e","m","i","c","o","n","d","u","c","t","o","r","s">>

\* 'ai_chip'
CatAiChip ==
    <<"a","i","_","c","h","i","p">>

\* 'ai_software'
CatAiSoftware ==
    <<"a","i","_","s","o","f","t","w","a","r","e">>

\* 'manual review'
NotesReview ==
    <<"m","a","n","u","a","l"," ","r","e","v","i","e","w">>

\* a JSON number, in halves: 1 is 0.5 and 90 is 45
JNum(h) ==
    [kind |-> "num", halves |-> h]

\* a JSON string that reads as the integer h / 2, such as "5"
JNumStr(h) ==
    [kind |-> "numstr", halves |-> h]

\* a JSON string that is no number, such as "high"
JBadStr ==
    [kind |-> "badstr", halves |-> 0]

JNumNull ==
    [kind |-> "null", halves |-> 0]

JNumAbsent ==
    [kind |-> "absent", halves |-> 0]

\* json.loads(data_json): form is "object", "nonobject" (valid JSON that is
\* no object) or "malformed"; is_active is "absent", "true", "false",
\* "null" or "text" (a non-empty JSON string such as "false")
Data(form, name, sec, cat, sc, active, note) ==
    [form |-> form, company_name |-> name, sector |-> sec, category |-> cat,
     score |-> sc, is_active |-> active, notes |-> note]

DataOf(sc, active) ==
    Data("object", JAbsent, JAbsent, JAbsent, sc, active, JAbsent)

\* '{}'
DataEmpty ==
    DataOf(JNumAbsent, "absent")

\* every field of the docstring
DataFull ==
    Data("object", JStr(NameNvidia), JStr(SectorSemis), JStr(CatAiChip),
         JNum(160), "true", JStr(NotesReview))

\* '{"score": 0}'
DataScoreZero ==
    DataOf(JNum(0), "absent")

\* '{"score": 45, "category": "ai_software"}'
DataScore45 ==
    Data("object", JAbsent, JAbsent, JStr(CatAiSoftware), JNum(90), "absent", JAbsent)

\* '{"score": 0.5}'
DataScoreHalf ==
    DataOf(JNum(1), "absent")

\* '{"score": "5"}'
DataScoreQuoted ==
    DataOf(JNumStr(10), "absent")

\* '{"score": "high"}'
DataScoreText ==
    DataOf(JBadStr, "absent")

\* '{"score": null}'
DataScoreNull ==
    DataOf(JNumNull, "absent")

\* '{"is_active": false}'
DataDeactivate ==
    DataOf(JNumAbsent, "false")

\* '{"is_active": true}'
DataActivate ==
    DataOf(JNumAbsent, "true")

\* '{"is_active": null}'
DataActiveNull ==
    DataOf(JNumAbsent, "null")

\* '{"is_active": "false"}'
DataActiveText ==
    DataOf(JNumAbsent, "text")

\* '{"notes": null, "category": null}'
DataClear ==
    Data("object", JAbsent, JAbsent, JNull, JNumAbsent, "absent", JNull)

\* '{"score": 80'
DataMalformed ==
    Data("malformed", JAbsent, JAbsent, JAbsent, JNumAbsent, "absent", JAbsent)

\* '[]'
DataArray ==
    Data("nonobject", JAbsent, JAbsent, JAbsent, JNumAbsent, "absent", JAbsent)

DataInputs ==
    {DataEmpty, DataFull, DataScoreZero, DataScore45, DataScoreHalf,
     DataScoreQuoted, DataScoreText, DataScoreNull, DataDeactivate,
     DataActivate, DataActiveNull, DataActiveText, DataClear, DataMalformed,
     DataArray}

\* the calls of _update_trading_universe: every input on one spelling of a
\* ticker, a few inputs on another spelling and on another ticker
UpsertCalls ==
    {<<RawNvdaPadded, data>> : data \in DataInputs}
        \cup {<<RawNvda, DataScore45>>, <<RawMcd, DataScore45>>,
              <<RawMcd, DataDeactivate>>}

(* _update_trading_universe *)

\* int(x) of a number given in halves
IntOf(h) ==
    IF h >= 0 THEN h \div 2 ELSE 0 - ((0 - h) \div 2)

\* bool(data['is_active'])
Truthy(active) ==
    active \in {"true", "text"}

\* the column a JSON string or null is stored as
ColumnOf(j) ==
    IF j.kind = "str" THEN Some(j.val) ELSE Null

\* what makes the body of the try block raise before the write:
\* json.loads, a key test or .get on a value that is no dict, int() of a
\* value that is no number, and the comparison of a str with 0
UpsertRaises(data) ==
    \/ data.form # "object"
    \/ data.score.kind \in {"badstr", "null", "numstr"}

\* data.get('score', 0) > 0
Mentioned(data) ==
    data.score.kind = "num" /\ data.score.halves > 0

\* keys that carry deactivated_at whenever the input carries is_active
UpsertColumns_AlwaysStamp(data) ==
    {"ticker", "last_scanned"}
        \cup {c \in {"company_name", "sector", "category", "notes"} : data[c].kind # "absent"}
        \cup (IF data.score.kind # "absent" THEN {"score"} ELSE {})
        \cup (IF data.is_active # "absent" THEN {"is_active", "deactivated_at"} ELSE {})
        \cup (IF Mentioned(data) THEN {"last_mention"} ELSE {})

\* keys without last_scanned
UpsertColumns_NoScanStamp(data) ==
    {"ticker"}
        \cup {c \in {"company_name", "sector", "category", "notes"} : data[c].kind # "absent"}
        \cup (IF data.score.kind # "absent" THEN {"score"} ELSE {})
        \cup (IF data.is_active # "absent" THEN {"is_active"} ELSE {})
        \cup (IF data.is_active # "absent" /\ ~Truthy(data.is_active)
              THEN {"deactivated_at"} ELSE {})
        \cup (IF Mentioned(data) THEN {"last_mention"} ELSE {})

\* the keys of upsert_data
UpsertColumns(data) ==
    {"ticker", "last_scanned"}
        \cup {c \in {"company_name", "sector", "category", "notes"} : data[c].kind # "absent"}
        \cup (IF data.score.kind # "absent" THEN {"score"} ELSE {})
        \cup (IF data.is_active # "absent" THEN {"is_active"} ELSE {})
        \cup (IF data.is_active # "absent" /\ ~Truthy(data.is_active)
              THEN {"deactivated_at"} ELSE {})
        \cup (IF Mentioned(data) THEN {"last_mention"} ELSE {})

\* upsert_data for a ticker argument, the parsed data and the clock
UpsertData(t, data, time) ==
    Payload(UpsertColumns(data),
            Row(NormalizeTicker(t), ColumnOf(data.company_name), ColumnOf(data.sector),
                ColumnOf(data.category), IntOf(data.score.halves),
                Truthy(data.is_active), ColumnOf(data.notes), IsoFormat(time),
                IsoFormat(time), IsoFormat(time)))

(* the arguments of _get_trading_universe *)

\* json.loads(filters_json): form as for the upsert; a key that is absent
\* is Null, a key that is present is Some(value)
Filters(form, active, min, max, cat, lim) ==
    [form |-> form, is_active |-> active, min_score |-> min, max_score |-> max,
     category |-> cat, limit |-> lim]

\* '{}'
FiltersEmpty ==
    Filters("object", Null, Null, Null, Null, Null)

\* '{"is_active": true}'
FiltersActive ==
    Filters("object", Some(TRUE), Null, Null, Null, Null)

\* '{"is_active": false}'
FiltersInactive ==
    Filters("object", Some(FALSE), Null, Null, Null, Null)

\* '{"is_active": true, "min_score": 70, "limit": 50}'
FiltersExample ==
    Filters("object", Some(TRUE), Some(70), Null, Null, Some(50))

\* '{"min_score": 45, "max_score": 75}'
FiltersRange ==
    Filters("object", Null, Some(45), Some(75), Null, Null)

\* '{"category": "ai_software"}'
FiltersCategory ==
    Filters("object", Null, Null, Null, Some(CatAiSoftware), Null)

\* '{"limit": 1}'
FiltersLimitOne ==
    Filters("object", Null, Null, Null, Null, Some(1))

\* '{"is_active": true, "limit": 2}'
FiltersLimitTwo ==
    Filters("object", Some(TRUE), Null, Null, Null, Some(2))

\* '{"is_active": tru'
FiltersMalformed ==
    Filters("malformed", Null, Null, Null, Null, Null)

\* '[]'
FiltersArray ==
    Filters("nonobject", Null, Null, Null, Null, Null)

FilterInputs ==
    {FiltersEmpty, FiltersActive, FiltersInactive, FiltersExample, FiltersRange,
     FiltersCategory, FiltersLimitOne, FiltersLimitTwo, FiltersMalformed,
     FiltersArray}

(* _get_trading_universe *)

\* filters.get('limit', 100) without a limit key
DefaultLimit ==
    100

\* a parser that reads anything it cannot parse as '{}'
QueryRaises_Lenient(filters) ==
    FALSE

\* json.loads of text that is no JSON, and filters.get on a value that is
\* no dict
QueryRaises(filters) ==
    filters.form # "object"

\* .eq('is_active', ...), .gte('score', ...), .lte('score', ...) and
\* .eq('category', ...) for the keys the filters carry
Matches(r, filters) ==
    /\ filters.is_active # Null => r.is_active = filters.is_active[1]
    /\ filters.min_score # Null => r.score >= filters.min_score[1]
    /\ filters.max_score # Null => r.score <= filters.max_score[1]
    /\ filters.category # Null => r.category = Some(filters.category[1])

Matching(tbl, filters) ==
    {r \in tbl : Matches(r, filters)}

\* the rows that may come first under order('score', desc=True)
First(rows) ==
    {r \in rows : \A other \in rows : other.score <= r.score}

RECURSIVE Orderings(_)
\* the sequences order('score', desc=True) may produce: rows of equal score
\* come in an order the store chooses
Orderings(rows) ==
    IF rows = {} THEN {<<>>}
    ELSE UNION {{<<r>> \o rest : rest \in Orderings(rows \ {r})} : r \in First(rows)}

\* a limit that is always the default
Limit_Ignored(filters) ==
    DefaultLimit

\* filters.get('limit', 100)
Limit(filters) ==
    IF filters.limit = Null THEN DefaultLimit ELSE filters.limit[1]

(* the CSV file of load_russell3000 *)

\* str(float('nan'))
CellNan ==
    <<"n","a","n">>

\* 'Russell 3000 seed stock'
SeedNotes ==
    <<"R","u","s","s","e","l","l"," ","3","0","0","0"," ","s","e","e","d"," ","s","t","o","c","k">>

\* 'Nvidia'
NameNvidiaOld ==
    <<"N","v","i","d","i","a">>

\* 'amd '
RawAmdPadded ==
    <<"a","m","d"," ">>

\* ' Advanced Micro Devices '
NameAmd ==
    <<" ","A","d","v","a","n","c","e","d"," ","M","i","c","r","o"," ","D","e","v","i","c","e","s"," ">>

\* a cell of the data frame: text, NaN (an empty cell) or no such column
Cell(text) ==
    [kind |-> "str", val |-> text]

CellEmpty ==
    [kind |-> "nan", val |-> <<>>]

CellAbsent ==
    [kind |-> "absent", val |-> <<>>]

\* str(row.get(column, row.get(other column, '')))
CellText(cell) ==
    IF cell.kind = "str" THEN cell.val
    ELSE IF cell.kind = "nan" THEN CellNan
    ELSE <<>>

CsvRow(t, name, sec) ==
    [Ticker |-> t, Name |-> name, Sector |-> sec]

CsvFile(exists, readable, rows) ==
    [exists |-> exists, readable |-> readable, rows |-> rows]

\* no file at csv_path
FileMissing ==
    CsvFile(FALSE, FALSE, <<>>)

\* a file pd.read_csv cannot read
FileUnreadable ==
    CsvFile(TRUE, FALSE, <<>>)

\* a file whose rows carry no ticker
FileBlank ==
    CsvFile(TRUE, TRUE, << CsvRow(CellEmpty, Cell(NameMcd), CellEmpty),
                           CsvRow(Cell(Space), CellEmpty, CellEmpty) >>)

\* a holdings file: NVDA twice, a row without ticker, and AMD
FileHoldings ==
    CsvFile(TRUE, TRUE, << CsvRow(Cell(RawNvdaPadded), Cell(NameNvidiaOld), Cell(SectorSemis)),
                           CsvRow(CellEmpty, Cell(NameMcd), CellEmpty),
                           CsvRow(Cell(RawAmdPadded), Cell(NameAmd), CellEmpty),
                           CsvRow(Cell(RawNvda), Cell(NameNvidia), CellAbsent) >>)

CsvFiles ==
    {FileMissing, FileUnreadable, FileBlank, FileHoldings}

(* load_russell3000 *)

\* batch_size
BatchSize ==
    1000

\* str(row.get('Ticker', row.get('Symbol', ''))).strip().upper()
RowTicker(row) ==
    Upper(Strip(CellText(row.Ticker)))

\* if not ticker or ticker == '' or ticker == 'NAN': continue
Skipped(row) ==
    RowTicker(row) = <<>> \/ RowTicker(row) = Upper(CellNan)

\* a stock dict that carries no score, category, flag or timestamps
StockColumns_Descriptive ==
    {"ticker", "company_name", "sector", "notes"}

\* the columns of a stock dict
StockColumns ==
    {"ticker", "company_name", "sector", "category", "score", "is_active",
     "last_scanned", "last_mention", "notes"}

\* the stock dict of a row
Stock(row) ==
    Payload(StockColumns,
            Row(RowTicker(row), Some(Strip(CellText(row.Name))),
                IF Strip(CellText(row.Sector)) = <<>> THEN Null
                ELSE Some(Strip(CellText(row.Sector))),
                Null, 0, TRUE, Some(SeedNotes), Null, Null, Null))

RECURSIVE StocksToInsert(_)
\* stocks_to_insert after the loop over the rows
StocksToInsert(rows) ==
    IF rows = <<>> THEN <<>>
    ELSE (IF Skipped(Head(rows)) THEN <<>> ELSE <<Stock(Head(rows))>>)
            \o StocksToInsert(Tail(rows))

\* a dedup that keeps the first stock of a ticker
LastOf_First(stocks, t) ==
    stocks[CHOOSE i \in 1..Len(stocks) :
              /\ stocks[i].row.ticker = t
              /\ \A j \in 1..(i - 1) : stocks[j].row.ticker # t]

\* seen[ticker] after the loop: the last stock of that ticker
LastOf(stocks, t) ==
    stocks[CHOOSE i \in 1..Len(stocks) :
              /\ stocks[i].row.ticker = t
              /\ \A j \in (i + 1)..Len(stocks) : stocks[j].row.ticker # t]

RECURSIVE SeenValues(_, _)
\* list(seen.values()): one stock per ticker, in the order the tickers
\* first appear
SeenValues(stocks, i) ==
    IF i > Len(stocks) THEN <<>>
    ELSE (IF \E j \in 1..(i - 1) : stocks[j].row.ticker = stocks[i].row.ticker
          THEN <<>> ELSE <<LastOf(stocks, stocks[i].row.ticker)>>)
            \o SeenValues(stocks, i + 1)

\* the number of batches of the upsert loop
Batches(stocks) ==
    (Len(stocks) + BatchSize - 1) \div BatchSize

\* the stocks upserted when batch number failing raises (0: none raises)
Upserted(stocks, failing) ==
    IF failing = 0 THEN stocks
    ELSE SubSeq(stocks, 1, Min(Len(stocks), (failing - 1) * BatchSize))

(* the calls on the store and what they return *)

NoFile ==
    CsvFile(FALSE, FALSE, <<>>)

\* a call: the operation, its arguments, what the store answers to its
\* request, and whether it repeats the call before it, which succeeded
Call(op, t, data, filters, file, answer, repeats) ==
    [op |-> op, ticker |-> t, data |-> data, filters |-> filters, file |-> file,
     answer |-> answer, repeats |-> repeats]

NoCall ==
    Call("none", <<>>, DataEmpty, FiltersEmpty, NoFile, "unasked", FALSE)

\* the returned value: a message for the upsert, True or False for the
\* import, the JSON document for the query
Reply(status, count, stocks) ==
    [status |-> status, count |-> count, stocks |-> stocks]

NoReply ==
    Reply("none", 0, <<>>)

\* the store before any call in the scan specifications
NoStore ==
    /\ supabase = TRUE
    /\ trading_universe = {}
    /\ now = 0
    /\ call = NoCall
    /\ reply = NoReply

(* calls of _update_trading_universe on two threads *)

Threads ==
    {1, 2}

\* a call in flight: where it is, its arguments, its upsert_data, whether
\* the store carried out its write, and what it returned
Inflight(at, t, data, upsert_data, written, status) ==
    [pc |-> at, ticker |-> t, data |-> data, upsert_data |-> upsert_data,
     written |-> written, status |-> status]

NoUpsertData ==
    Payload({}, DefaultRow(<<>>))

NoInflight ==
    Inflight("none", <<>>, DataEmpty, NoUpsertData, FALSE, "none")

\* no thread is calling
NoRace ==
    /\ inflight = [w \in Threads |-> NoInflight]
    /\ started = {}

(* the alerts of the dashboard *)

\* ' nvda '
TickerNvdaPadded ==
    <<" ","n","v","d","a"," ">>
\* 'BRK.B'
TickerBrkB ==
    <<"B","R","K",".","B">>
\* 'NVDA!'
TickerBang ==
    <<"N","V","D","A","!">>
\* 'ABCDEFGHIJK'
TickerLong ==
    <<"A","B","C","D","E","F","G","H","I","J","K">>
\* 'above'
Above ==
    <<"a","b","o","v","e">>
\* 'below'
Below ==
    <<"b","e","l","o","w">>
\* 'equals'
Equals ==
    <<"e","q","u","a","l","s">>

\* request.json: the ticker and the condition are JSON strings, null or
\* absent, the price a JSON number (in halves), a string, null or absent
Body(t, condition, price) ==
    [ticker |-> t, condition |-> condition, price |-> price]

\* no JSON body, or {}
BodyEmpty ==
    Body(JAbsent, JAbsent, JNumAbsent)

\* the bodies posted to /api/alerts
Bodies ==
    { BodyEmpty,
      Body(JStr(TickerNvdaPadded), JAbsent, JNum(300)),      \* price 150
      Body(JStr(TickerBrkB), JStr(Below), JNumStr(199)),     \* price "99.5"
      Body(JStr(TickerBrkB), JStr(Above), JNum(2000000)),    \* price 1000000
      Body(JStr(TickerBang), JStr(Above), JNum(300)),
      Body(JStr(TickerLong), JStr(Above), JNum(300)),
      Body(JNull, JStr(Above), JNum(300)),
      Body(JStr(TickerBrkB), JStr(Equals), JNum(300)),
      Body(JStr(TickerBrkB), JStr(Below), JNum(0)),
      Body(JStr(TickerBrkB), JStr(Below), JNum(2000001)),
      Body(JStr(TickerBrkB), JStr(Below), JBadStr),
      Body(JStr(TickerBrkB), JStr(Below), JNumNull) }

Digits ==
    {"0", "1", "2", "3", "4", "5", "6", "7", "8", "9"}

\* str.isalnum()
IsAlnum(s) ==
    /\ s # <<>>
    /\ \A i \in 1..Len(s) :
          s[i] \in Digits \cup Range(UpperCaseChars) \cup Range(LowerCaseChars)

\* str.replace(c, '') for a character c
Without(s, c) ==
    SelectSeq(s, LAMBDA x : x # c)

\* data.get('ticker', '').strip().upper(), which raises on null
AlertTicker(body) ==
    Upper(Strip(IF body.ticker.kind = "str" THEN body.ticker.val ELSE <<>>))

\* not ticker or len(ticker) > 10 or not ....isalnum()
InvalidTicker(t) ==
    t = <<>> \/ Len(t) > 10 \/ ~IsAlnum(Without(Without(t, "."), "-"))

\* data.get('condition', 'above')
AlertCondition(body) ==
    IF body.condition.kind = "absent" THEN Above
    ELSE IF body.condition.kind = "str" THEN body.condition.val
    ELSE <<>>

\* float(...) raises ValueError or TypeError
PriceRaises(body) ==
    body.price.kind \in {"badstr", "null"}

\* float(data.get('price', 0)), in halves
AlertPrice(body) ==
    IF body.price.kind = "absent" THEN 0 ELSE body.price.halves

\* the status add_alert returns before it touches the file, 0 when it goes on
Rejected(body) ==
    IF body.ticker.kind = "null" THEN 500
    ELSE IF InvalidTicker(AlertTicker(body)) THEN 400
    ELSE IF AlertCondition(body) \notin {Above, Below} THEN 400
    ELSE IF PriceRaises(body) THEN 400
    ELSE IF AlertPrice(body) <= 0 \/ AlertPrice(body) > 2000000 THEN 400
    ELSE 0

\* new_alert
Alert(t, condition, price, created) ==
    [ticker |-> t, condition |-> condition, price |-> price, created |-> created,
     triggered |-> FALSE]

NoAlert ==
    Alert(<<>>, <<>>, 0, Null)

\* the file: missing, unreadable as JSON, or a JSON list of alerts
File(kind, alerts) ==
    [kind |-> kind, alerts |-> alerts]

\* an alert saved earlier
AlertOnFile ==
    Alert(<<"M","C","D">>, Below, 500, IsoFormat(0))

Files ==
    {File("missing", <<>>), File("corrupt", <<>>), File("json", <<AlertOnFile>>)}

\* load_json_file(ALERTS_FILE, [])
LoadJsonFile(file) ==
    IF file.kind = "json" THEN file.alerts ELSE <<>>

\* one run of the handler: where it is, the body, its alerts list and
\* new_alert, and the status it returned
Handler(at, body, alerts, new_alert, status) ==
    [pc |-> at, body |-> body, alerts |-> alerts, new_alert |-> new_alert,
     status |-> status]

Requests ==
    {1, 2}

\* no request is being served
NoAlerts ==
    /\ alerts_file = File("missing", <<>>)
    /\ add_alert = [r \in Requests |-> Handler("none", BodyEmpty, <<>>, NoAlert, 0)]

(* the promotion rules of the Curator *)

\* Score >= 70
PromoteScore ==
    70

\* Score < 50
DemoteScore ==
    50

\* Score < 30
PruneScore ==
    30

\* no AI mentions for 90 days
SilentDays ==
    90

\* a universe record as the rules read it, with the days since its
\* last_mention, and the status of its ticker on the watchlist
Curated(sc, active, silent, status) ==
    [score |-> sc, is_active |-> active, silent_days |-> silent, watchlist |-> status]

\* Score >= 70 AND is_active = True -> add_to_watchlist() with status='Watching'
Promote(c) ==
    IF c.score >= PromoteScore /\ c.is_active
    THEN [c EXCEPT !.watchlist = "Watching"]
    ELSE c

\* Score < 50 -> Remove from watchlist
Demote(c) ==
    IF c.score < DemoteScore THEN [c EXCEPT !.watchlist = "absent"] ELSE c

\* Score < 30 OR no AI mentions for 90 days -> Set is_active = False
Prune(c) ==
    IF c.score < PruneScore \/ c.silent_days >= SilentDays
    THEN [c EXCEPT !.is_active = FALSE]
    ELSE c

PromotionRules ==
    {"promote", "demote", "prune"}

\* no cycle of the Curator is running
NoCycle ==
    /\ curated = Curated(0, FALSE, 0, "absent")
    /\ rules_left = {}
    /\ cycle_start = curated

(* _fetch_edgar_ai_mentions *)

\* 'We develop <em>artificial intelligence</em> chips for data centers.'
FragmentChips ==
    <<"W","e"," ","d","e","v","e","l","o","p"," ","<","e","m",">","a","r","t","i","f","i","c","i","a","l"," ","i","n","t","e","l","l","i","g","e","n","c","e","<","/","e","m",">"," ","c","h","i","p","s"," ","f","o","r"," ","d","a","t","a"," ","c","e","n","t","e","r","s",".">>
\* 'Our <em>machine learning</em> platform'
FragmentPlatform ==
    <<"O","u","r"," ","<","e","m",">","m","a","c","h","i","n","e"," ","l","e","a","r","n","i","n","g","<","/","e","m",">"," ","p","l","a","t","f","o","r","m">>
\* 'NVIDIA'
NameNvidiaShort ==
    <<"N","V","I","D","I","A">>
\* 'timed out'
MsgTimeout ==
    <<"t","i","m","e","d"," ","o","u","t">>
\* 'connection refused'
MsgConnection ==
    <<"c","o","n","n","e","c","t","i","o","n"," ","r","e","f","u","s","e","d">>
\* 'Expecting value'
MsgNotJson ==
    <<"E","x","p","e","c","t","i","n","g"," ","v","a","l","u","e">>

\* one hit of the full-text search: the highlighted fragments of a filing
Hit(fragments) ==
    [file_contents |-> fragments]

Hits ==
    {Hit(<<>>), Hit(<<FragmentChips>>), Hit(<<FragmentPlatform>>),
     Hit(<<FragmentChips, FragmentPlatform>>)}

\* response.json(): {"hits": {"hits": [...], "total": {"value": n}}}, or
\* the exception requests.get or .json() raised
EdgarResponse(status, hits, total, message) ==
    [status |-> status, hits |-> hits, total |-> total, message |-> message]

\* {"hits": {"hits": [], "total": {"value": 0}}}
EdgarNoFilings ==
    EdgarResponse("json", <<>>, 0, <<>>)

NoEdgarResponse ==
    EdgarResponse("none", <<>>, 0, <<>>)

\* longest list of hits in a response
MaxHits ==
    2

EdgarResponses ==
    {EdgarResponse("error", <<>>, 0, m) : m \in {MsgTimeout, MsgConnection, MsgNotJson}}
    \cup {EdgarNoFilings}
    \cup {EdgarResponse("json", hits, Len(hits) + more, <<>>) :
             hits \in UNION {[1..n -> Hits] : n \in 1..MaxHits}, more \in {0, 10}}

RECURSIVE Snippets(_)
\* the highlighted fragments of the hits, in order
Snippets(hits) ==
    IF hits = <<>> THEN <<>>
    ELSE Head(hits).file_contents \o Snippets(Tail(hits))

\* the outcome of a call: raised, or the dict it returned
EdgarOutcome(raised, keys, count, snippets, error) ==
    [raised |-> raised, keys |-> keys, count |-> count, snippets |-> snippets,
     error |-> error]

NoEdgarOutcome ==
    EdgarOutcome(FALSE, {}, 0, <<>>, <<>>)

\* a fetch that lets the exception of the request through
FetchEdgarAiMentions_Reraise(t, name, response) ==
    IF response.status = "error"
    THEN EdgarOutcome(TRUE, {}, 0, <<>>, response.message)
    ELSE EdgarOutcome(FALSE, {"count", "snippets"}, response.total, Snippets(response.hits),
                      <<>>)

\* _fetch_edgar_ai_mentions(ticker, company_name), given the response of
\* the search
FetchEdgarAiMentions(t, name, response) ==
    IF response.status = "error"
    THEN EdgarOutcome(FALSE, {"count", "snippets", "error"}, 0, <<>>, response.message)
    ELSE EdgarOutcome(FALSE, {"count", "snippets"}, response.total, Snippets(response.hits),
                      <<>>)

\* a call: where it is, its arguments, the response and the outcome
Edgar(at, t, name, response, outcome) ==
    [pc |-> at, ticker |-> t, company_name |-> name, response |-> response,
     outcome |-> outcome]

\* no call of _fetch_edgar_ai_mentions
NoEdgar ==
    edgar = Edgar("none", <<>>, <<>>, NoEdgarResponse, NoEdgarOutcome)

\* nothing but the scan or the single calls on the universe is going on
AtRest ==
    /\ NoRace
    /\ NoAlerts
    /\ NoCycle
    /\ NoEdgar

(* the scan, step by step *)

FreshScan ==
    /\ pc = "call"
    /\ ticker = <<>>
    /\ company_name = <<>>
    /\ sector = PyNone
    /\ score = 0
    /\ evidence = <<>>
    /\ profileResp = NoResponse
    /\ newsResp = NoResponse
    /\ stage1 = NoResult
    /\ llmCalls = 0
    /\ llm_result = NoLlmResult
    /\ returned = NoResult

Init ==
    /\ apiKey \in BOOLEAN
    /\ rawTicker \in RawTickers
    /\ sources = "full"
    /\ FreshScan
    /\ results = [t \in Tickers |-> NoResult]
    /\ NoStore
    /\ AtRest

InitBatch ==
    /\ apiKey \in BOOLEAN
    /\ rawTicker \in RawTickers
    /\ sources = "batch"
    /\ FreshScan
    /\ results = [t \in Tickers |-> NoResult]
    /\ NoStore
    /\ AtRest

\* _scan_stock_for_ai is entered and calls _keyword_scoring, which raises
\* when the credential is missing and otherwise sets up its locals
ScanCall ==
    /\ pc = "call"
    /\ ticker' = NormalizeTicker(rawTicker)
    /\ IF apiKey
       THEN /\ pc' = "profile"
            /\ company_name' = NormalizeTicker(rawTicker)
            /\ sector' = PyNone
            /\ score' = 0
            /\ evidence' = <<>>
       ELSE /\ pc' = "except"
            /\ UNCHANGED << company_name, sector, score, evidence >>
    /\ UNCHANGED << apiKey, rawTicker, sources, profileResp,
                    newsResp, stage1, llmCalls, llm_result, returned, results >>
    /\ UNCHANGED storeVars
    /\ UNCHANGED otherVars

\* the profile request and the scoring of the description
FetchProfile ==
    /\ pc = "profile"
    /\ \E resp \in ProfileSource(sources) :
         /\ profileResp' = resp
         /\ IF resp.status = "data"
            THEN /\ company_name' = IF resp.name.kind = "str" THEN resp.name.val ELSE ticker
                 /\ sector' = IF resp.finnhubIndustry = KeyMissing THEN PyNone
                              ELSE resp.finnhubIndustry
                 /\ IF LowerRaises(resp.description)
                    THEN UNCHANGED << score, evidence >>
                    ELSE LET acc == ScoreDescription(GetLower(resp.description),
                                        [score |-> score, evidence |-> evidence])
                         IN  /\ score' = acc.score
                             /\ evidence' = acc.evidence
            ELSE UNCHANGED << company_name, sector, score, evidence >>
    /\ pc' = "news"
    /\ UNCHANGED << apiKey, rawTicker, sources, ticker, newsResp,
                    stage1, llmCalls, llm_result, returned, results >>
    /\ UNCHANGED storeVars
    /\ UNCHANGED otherVars

\* the news request, the scoring of the articles, the cap, the category and
\* the return of _keyword_scoring
FetchNews ==
    /\ pc = "news"
    /\ \E resp \in NewsSource(sources) :
         /\ newsResp' = resp
         /\ \E acc \in {IF resp.status = "list"
                        THEN ScoreNews(resp.articles, [score |-> score, evidence |-> evidence])
                        ELSE [score |-> score, evidence |-> evidence]} :
                /\ score' = CapScore(acc.score)
                /\ evidence' = acc.evidence
                /\ stage1' = KeywordResult(ticker, company_name, sector, acc.score, acc.evidence)
    /\ pc' = "stage2"
    /\ UNCHANGED << apiKey, rawTicker, sources, ticker, company_name,
                    sector, profileResp, llmCalls, llm_result, returned, results >>
    /\ UNCHANGED storeVars
    /\ UNCHANGED otherVars

\* the borderline branch and the return of _scan_stock_for_ai
Stage2 ==
    /\ pc = "stage2"
    /\ IF NeedsValidation(stage1.score)
       THEN /\ llmCalls' = llmCalls + 1
            /\ llm_result' = LlmValidation(ticker, stage1)
            /\ returned' = ApplyValidation(stage1, LlmValidation(ticker, stage1))
       ELSE /\ returned' = stage1
            /\ UNCHANGED << llmCalls, llm_result >>
    /\ results' = [results EXCEPT ![ticker] = returned']
    /\ pc' = "returned"
    /\ UNCHANGED << apiKey, rawTicker, sources, ticker, company_name,
                    sector, score, evidence, profileResp, newsResp, stage1 >>
    /\ UNCHANGED storeVars
    /\ UNCHANGED otherVars

\* an except branch that lets the exception through to the caller
ScanExcept_Reraise ==
    /\ pc = "except"
    /\ pc' = "raised"
    /\ UNCHANGED << apiKey, rawTicker, sources, ticker, company_name,
                    sector, score, evidence, profileResp, newsResp, stage1, llmCalls,
                    llm_result, returned, results >>
    /\ UNCHANGED storeVars
    /\ UNCHANGED otherVars

\* the except branch of _scan_stock_for_ai
ScanExcept ==
    /\ pc = "except"
    /\ returned' = ErrorResult(ticker, "FINNHUB_API_KEY not set")
    /\ results' = [results EXCEPT ![ticker] = returned']
    /\ pc' = "returned"
    /\ UNCHANGED << apiKey, rawTicker, sources, ticker, company_name,
                    sector, score, evidence, profileResp, newsResp, stage1, llmCalls,
                    llm_result >>
    /\ UNCHANGED storeVars
    /\ UNCHANGED otherVars

\* the caller scans the next ticker of its batch
NextScan ==
    /\ pc = "returned"
    /\ apiKey' \in BOOLEAN
    /\ rawTicker' \in RawTickers
    /\ pc' = "call"
    /\ ticker' = <<>>
    /\ company_name' = <<>>
    /\ sector' = PyNone
    /\ score' = 0
    /\ evidence' = <<>>
    /\ profileResp' = NoResponse
    /\ newsResp' = NoResponse
    /\ stage1' = NoResult
    /\ llmCalls' = 0
    /\ llm_result' = NoLlmResult
    /\ returned' = NoResult
    /\ UNCHANGED << sources, results >>
    /\ UNCHANGED storeVars
    /\ UNCHANGED otherVars

Next ==
    \/ ScanCall
    \/ FetchProfile
    \/ FetchNews
    \/ Stage2
    \/ ScanExcept

NextBatch ==
    \/ Next
    \/ NextScan

\* one scan
Spec ==
    Init /\ [][Next]_vars

\* a batch of scans
SpecBatch ==
    InitBatch /\ [][NextBatch]_vars

-----------------------------------------------------------------------------
(* the universe store, call by call *)

\* the number of calls on the store in one behaviour; every call reads a
\* later clock value than the one before
MaxTime ==
    3

\* 'IBM'
TickerIbm ==
    <<"I","B","M">>

\* the universe of the query example: active records scored 90, 75 and 60
\* and an inactive record scored 95
ExampleUniverse ==
    {Row(NormalizeTicker(RawNvda), Some(NameNvidia), Some(SectorSemis), Some(CatAiChip),
         90, TRUE, Null, IsoFormat(0), IsoFormat(0), Null),
     Row(NormalizeTicker(RawMcd), Some(NameMcd), Null, Null,
         75, TRUE, Null, IsoFormat(0), IsoFormat(0), Null),
     Row(NormalizeTicker(RawAmdPadded), Null, Null, Some(CatAiChip),
         60, TRUE, Null, IsoFormat(0), IsoFormat(0), Null),
     Row(TickerIbm, Null, Null, Some(CatAiSoftware),
         95, FALSE, Null, IsoFormat(0), IsoFormat(0), IsoFormat(0))}

InitialUniverses ==
    {{}, ExampleUniverse}

\* init_supabase has run, with or without SUPABASE_URL and SUPABASE_KEY; no
\* scan is running
InitStore ==
    /\ apiKey = TRUE
    /\ rawTicker = RawNvdaPadded
    /\ sources = "store"
    /\ pc = "returned"
    /\ ticker = <<>>
    /\ company_name = <<>>
    /\ sector = PyNone
    /\ score = 0
    /\ evidence = <<>>
    /\ profileResp = NoResponse
    /\ newsResp = NoResponse
    /\ stage1 = NoResult
    /\ llmCalls = 0
    /\ llm_result = NoLlmResult
    /\ returned = NoResult
    /\ results = [t \in Tickers |-> NoResult]
    /\ supabase \in BOOLEAN
    /\ trading_universe \in InitialUniverses
    /\ now = 0
    /\ call = NoCall
    /\ reply = NoReply
    /\ AtRest

\* return "Error: Supabase not connected" and
\* json.dumps({'error': 'Supabase not connected'})
NotConnected ==
    Reply("unconnected", 0, <<>>)

\* an except branch that lets the exception through to the caller
ExceptReply_Raise ==
    Reply("raised", 0, <<>>)

\* the except branches: return f"Error updating trading_universe for ..."
\* and json.dumps({'error': str(e)})
ExceptReply ==
    Reply("error", 0, <<>>)

\* return f"✓ Updated {ticker} in trading_universe (...)" and return True
Done ==
    Reply("ok", 0, <<>>)

\* json.dumps({'count': len(result.data), 'stocks': result.data})
Found(stocks) ==
    Reply("ok", Len(stocks), stocks)

\* what the store does with a request: it applies and acknowledges it,
\* refuses it, or applies it and the acknowledgement is lost ("unasked"
\* stands for a call that sends no request)
StoreAnswers ==
    {"ok", "refused", "unacknowledged"}

\* _update_trading_universe(ticker, data_json)
UpdateTradingUniverse ==
    /\ pc = "returned"
    /\ now < MaxTime
    /\ now' = now + 1
    /\ \E c \in UpsertCalls :
       \E t \in {c[1]}, data \in {c[2]} :
       \E answer \in IF supabase /\ ~UpsertRaises(data) THEN StoreAnswers ELSE {"unasked"} :
         /\ call' = Call("upsert", t, data, FiltersEmpty, NoFile, answer,
                         /\ call.op = "upsert" /\ reply.status = "ok"
                         /\ call.ticker = t /\ call.data = data)
         /\ IF ~supabase
            THEN /\ reply' = NotConnected
                 /\ UNCHANGED trading_universe
            ELSE IF UpsertRaises(data)
            THEN /\ reply' = ExceptReply
                 /\ UNCHANGED trading_universe
            ELSE /\ trading_universe' =
                        IF answer = "refused" THEN trading_universe
                        ELSE Upsert(trading_universe, UpsertData(t, data, now'))
                 /\ reply' = IF answer = "ok" THEN Done ELSE ExceptReply
    /\ UNCHANGED supabase
    /\ UNCHANGED scanVars
    /\ UNCHANGED otherVars

\* _get_trading_universe(filters_json)
GetTradingUniverse ==
    /\ pc = "returned"
    /\ now < MaxTime
    /\ now' = now + 1
    /\ \E filters \in FilterInputs :
       \E answer \in IF supabase /\ ~QueryRaises(filters) THEN {"ok", "refused"}
                      ELSE {"unasked"} :
         /\ call' = Call("query", <<>>, DataEmpty, filters, NoFile, answer, FALSE)
         /\ IF ~supabase
            THEN reply' = NotConnected
            ELSE IF QueryRaises(filters) \/ answer = "refused"
            THEN reply' = ExceptReply
            ELSE \E order \in Orderings(Matching(trading_universe, filters)) :
                    reply' = Found(Take(order, Limit(filters)))
    /\ UNCHANGED << supabase, trading_universe >>
    /\ UNCHANGED scanVars
    /\ UNCHANGED otherVars

\* load_russell3000(csv_path)
LoadRussell3000 ==
    /\ pc = "returned"
    /\ now < MaxTime
    /\ now' = now + 1
    /\ \E file \in CsvFiles :
         \E stocks \in {SeenValues(StocksToInsert(file.rows), 1)} :
           \E failing \in IF supabase /\ file.exists /\ file.readable
                           THEN 0..Batches(stocks) ELSE {0} :
             /\ call' = Call("import", <<>>, DataEmpty, FiltersEmpty, file,
                             IF ~supabase \/ ~file.exists \/ ~file.readable \/ stocks = <<>>
                             THEN "unasked"
                             ELSE IF failing = 0 THEN "ok" ELSE "refused", FALSE)
             /\ IF ~supabase \/ ~file.exists \/ ~file.readable \/ stocks = <<>>
                THEN /\ reply' = ExceptReply
                     /\ UNCHANGED trading_universe
                ELSE /\ trading_universe' =
                            UpsertAll(trading_universe, Upserted(stocks, failing))
                     /\ reply' = IF failing = 0 THEN Done ELSE ExceptReply
    /\ UNCHANGED supabase
    /\ UNCHANGED scanVars
    /\ UNCHANGED otherVars

\* the agent calls scan_stock_for_ai between its calls on the store
ScanStockForAi ==
    /\ pc = "returned"
    /\ now < MaxTime
    /\ now' = now + 1
    /\ apiKey' \in BOOLEAN
    /\ rawTicker' = RawNvdaPadded
    /\ pc' = "call"
    /\ ticker' = <<>>
    /\ company_name' = <<>>
    /\ sector' = PyNone
    /\ score' = 0
    /\ evidence' = <<>>
    /\ profileResp' = NoResponse
    /\ newsResp' = NoResponse
    /\ stage1' = NoResult
    /\ llmCalls' = 0
    /\ llm_result' = NoLlmResult
    /\ returned' = NoResult
    /\ call' = Call("scan", rawTicker', DataEmpty, FiltersEmpty, NoFile, "unasked", FALSE)
    /\ reply' = NoReply
    /\ UNCHANGED << sources, results, supabase, trading_universe >>
    /\ UNCHANGED otherVars

NextStore ==
    \/ UpdateTradingUniverse
    \/ GetTradingUniverse
    \/ LoadRussell3000
    \/ ScanStockForAi
    \/ ScanCall
    \/ FetchProfile
    \/ FetchNews
    \/ Stage2
    \/ ScanExcept

\* the calls of the agent's tools on the universe, one after the other
SpecStore ==
    InitStore /\ [][NextStore]_vars

(* two threads, each in one call of _update_trading_universe *)

\* no scan is running
NoScan ==
    /\ apiKey = TRUE
    /\ rawTicker = RawNvdaPadded
    /\ sources = "store"
    /\ pc = "returned"
    /\ ticker = <<>>
    /\ company_name = <<>>
    /\ sector = PyNone
    /\ score = 0
    /\ evidence = <<>>
    /\ profileResp = NoResponse
    /\ newsResp = NoResponse
    /\ stage1 = NoResult
    /\ llmCalls = 0
    /\ llm_result = NoLlmResult
    /\ returned = NoResult
    /\ results = [t \in Tickers |-> NoResult]

\* the arguments of the calls that race
RaceCalls ==
    {<<t, data>> : t \in {RawNvdaPadded, RawNvda, RawMcd},
                   data \in {DataFull, DataScore45, DataScoreZero, DataDeactivate,
                              DataActivate, DataMalformed}}

\* each thread has been handed its arguments
InitRace ==
    /\ NoScan
    /\ supabase \in BOOLEAN
    /\ trading_universe \in InitialUniverses
    /\ started = trading_universe
    /\ now = 0
    /\ call = NoCall
    /\ reply = NoReply
    /\ inflight \in [Threads -> {Inflight("called", c[1], c[2], NoUpsertData, FALSE, "none") :
                                    c \in RaceCalls}]
    /\ NoAlerts
    /\ NoCycle
    /\ NoEdgar

\* a thread runs _update_trading_universe up to the request to the store:
\* the connection test, json.loads and the building of upsert_data
PrepareUpsert ==
    \E w \in Threads :
        /\ inflight[w].pc = "called"
        /\ IF ~supabase
           THEN /\ inflight' = [inflight EXCEPT ![w].pc = "returned",
                                                ![w].status = "unconnected"]
                /\ UNCHANGED now
           ELSE IF UpsertRaises(inflight[w].data)
           THEN /\ inflight' = [inflight EXCEPT ![w].pc = "returned",
                                                ![w].status = "error"]
                /\ UNCHANGED now
           ELSE /\ now' = now + 1
                /\ inflight' = [inflight EXCEPT
                                   ![w].pc = "request",
                                   ![w].upsert_data =
                                       UpsertData(inflight[w].ticker, inflight[w].data, now')]
        /\ UNCHANGED << supabase, trading_universe, call, reply, started >>
        /\ UNCHANGED << scanVars, alertVars, policyVars, edgar >>

\* the store serves the request of a thread, and the thread returns
ExecuteUpsert ==
    \E w \in Threads, answer \in StoreAnswers :
        /\ inflight[w].pc = "request"
        /\ trading_universe' =
              IF answer = "refused" THEN trading_universe
              ELSE Upsert(trading_universe, inflight[w].upsert_data)
        /\ inflight' = [inflight EXCEPT
                           ![w].pc = "returned",
                           ![w].written = (answer # "refused"),
                           ![w].status = IF answer = "ok" THEN "ok" ELSE "error"]
        /\ UNCHANGED << supabase, now, call, reply, started >>
        /\ UNCHANGED << scanVars, alertVars, policyVars, edgar >>

NextRace ==
    \/ PrepareUpsert
    \/ ExecuteUpsert

\* two concurrent calls of _update_trading_universe
SpecRace ==
    InitRace /\ [][NextRace]_vars

(* two requests to POST /api/alerts, served concurrently *)

InitAlerts ==
    /\ NoScan
    /\ NoStore
    /\ NoRace
    /\ alerts_file \in Files
    /\ add_alert \in [Requests -> {Handler("called", body, <<>>, NoAlert, 0) : body \in Bodies}]
    /\ NoCycle
    /\ NoEdgar

\* add_alert from its entry to alerts.append(new_alert): the validation, the
\* load of the file and the new alert
LoadAlerts ==
    \E r \in Requests :
        /\ add_alert[r].pc = "called"
        /\ IF Rejected(add_alert[r].body) # 0
           THEN /\ add_alert' = [add_alert EXCEPT ![r].pc = "returned",
                                                  ![r].status = Rejected(add_alert[r].body)]
                /\ UNCHANGED now
           ELSE /\ now' = now + 1
                /\ \E new_alert \in {Alert(AlertTicker(add_alert[r].body),
                                            AlertCondition(add_alert[r].body),
                                            AlertPrice(add_alert[r].body),
                                            IsoFormat(now'))} :
                      add_alert' = [add_alert EXCEPT
                                       ![r].pc = "save",
                                       ![r].new_alert = new_alert,
                                       ![r].alerts = Append(LoadJsonFile(alerts_file), new_alert)]
        /\ UNCHANGED << alerts_file, supabase, trading_universe, call, reply >>
        /\ UNCHANGED << scanVars, raceVars, policyVars, edgar >>

\* save_json_file(ALERTS_FILE, alerts) under its lock, and the response
SaveAlerts ==
    \E r \in Requests, saved \in BOOLEAN :
        /\ add_alert[r].pc = "save"
        /\ alerts_file' = IF saved THEN File("json", add_alert[r].alerts) ELSE alerts_file
        /\ add_alert' = [add_alert EXCEPT ![r].pc = "returned",
                                          ![r].status = IF saved THEN 201 ELSE 500]
        /\ UNCHANGED storeVars
        /\ UNCHANGED << scanVars, raceVars, policyVars, edgar >>

NextAlerts ==
    \/ LoadAlerts
    \/ SaveAlerts

\* two concurrent requests that add an alert
SpecAlerts ==
    InitAlerts /\ [][NextAlerts]_vars

(* one cycle of the promotion rules on one record *)

\* the records a cycle starts from: scores at and next to the thresholds of
\* the rules, mentions just short of, at and past 90 days ago
InitPromotion ==
    /\ NoScan
    /\ NoStore
    /\ NoRace
    /\ NoAlerts
    /\ curated \in {Curated(sc, active, silent, status) :
                       sc \in {0, 29, 30, 49, 50, 69, 70, 100}, active \in BOOLEAN,
                       silent \in {0, 89, 90, 91}, status \in {"absent", "Watching"}}
    /\ rules_left = PromotionRules
    /\ cycle_start = curated
    /\ NoEdgar

\* the Curator applies the first promotion rule to the record as it stands
ApplyPromote ==
    /\ "promote" \in rules_left
    /\ curated' = Promote(curated)
    /\ rules_left' = rules_left \ {"promote"}
    /\ UNCHANGED cycle_start
    /\ UNCHANGED << scanVars, storeVars, raceVars, alertVars, edgar >>

\* the Curator applies the second promotion rule
ApplyDemote ==
    /\ "demote" \in rules_left
    /\ curated' = Demote(curated)
    /\ rules_left' = rules_left \ {"demote"}
    /\ UNCHANGED cycle_start
    /\ UNCHANGED << scanVars, storeVars, raceVars, alertVars, edgar >>

\* the Curator applies the third promotion rule
ApplyPrune ==
    /\ "prune" \in rules_left
    /\ curated' = Prune(curated)
    /\ rules_left' = rules_left \ {"prune"}
    /\ UNCHANGED cycle_start
    /\ UNCHANGED << scanVars, storeVars, raceVars, alertVars, edgar >>

NextPromotion ==
    \/ ApplyPromote
    \/ ApplyDemote
    \/ ApplyPrune

\* the three rules, applied once each in any order
SpecPromotion ==
    InitPromotion /\ [][NextPromotion]_vars

(* a call of _fetch_edgar_ai_mentions *)

EdgarCalls ==
    {<<RawNvda, NameNvidiaShort>>, <<RawNvda, NameNvidia>>, <<NormalizeTicker(RawMcd), NameMcd>>}

InitEdgar ==
    /\ NoScan
    /\ NoStore
    /\ NoRace
    /\ NoAlerts
    /\ NoCycle
    /\ edgar \in {Edgar("called", c[1], c[2], NoEdgarResponse, NoEdgarOutcome) : c \in EdgarCalls}

\* the search is asked, answers or fails, and the call ends
FetchEdgar ==
    /\ edgar.pc = "called"
    /\ \E response \in EdgarResponses :
       \E outcome \in {FetchEdgarAiMentions(edgar.ticker, edgar.company_name, response)} :
          edgar' = [edgar EXCEPT !.pc = IF outcome.raised THEN "raised" ELSE "returned",
                                 !.response = response,
                                 !.outcome = outcome]
    /\ UNCHANGED << scanVars, storeVars, raceVars, alertVars, policyVars >>

NextEdgar ==
    FetchEdgar

\* one call of _fetch_edgar_ai_mentions
SpecEdgar ==
    InitEdgar /\ [][NextEdgar]_vars

(* what a scan was given, counted independently of the scoring loops *)

\* the description the profile carried, lower-cased; empty when there is none
GivenDescription ==
    IF profileResp.status = "data" THEN GetLower(profileResp.description) ELSE <<>>

\* the articles the News Source returned
GivenArticles ==
    IF newsResp.status = "list" THEN newsResp.articles ELSE <<>>

\* the keywords of a list that occur in a text
KeywordsIn(keywords, text) ==
    {i \in 1..Len(keywords) : Contains(keywords[i], text)}

RECURSIVE SumOver(_, _)
SumOver(f, n) ==
    IF n = 0 THEN 0 ELSE f[n] + SumOver(f, n - 1)

\* points of one article: 10 if any tier-1 keyword occurs, 5 if any tier-2
ArticlePoints(article) ==
    (IF KeywordsIn(Tier1Keywords, ArticleText(article)) # {} THEN 10 ELSE 0)
    + (IF KeywordsIn(Tier2Keywords, ArticleText(article)) # {} THEN 5 ELSE 0)

\* the uncapped sum of the scoring formula over the description and the
\* first 10 articles
GivenPoints ==
    10 * Cardinality(KeywordsIn(Tier1Keywords, GivenDescription))
    + 5 * Cardinality(KeywordsIn(Tier2Keywords, GivenDescription))
    + SumOver([i \in 1..Len(GivenArticles) |-> ArticlePoints(GivenArticles[i])],
              IF Len(GivenArticles) < 10 THEN Len(GivenArticles) ELSE 10)

\* every one of the first 10 articles has a text
ArticlesWellFormed ==
    \A i \in 1..Len(GivenArticles) : i <= 10 => ~ArticleRaises(GivenArticles[i])

\* neither the description nor any article carries a tier-1 or tier-2 keyword
NoKeywordGiven ==
    /\ KeywordsIn(Tier1Keywords \o Tier2Keywords, GivenDescription) = {}
    /\ \A i \in 1..Len(GivenArticles) :
           KeywordsIn(Tier1Keywords \o Tier2Keywords, ArticleText(GivenArticles[i])) = {}

\* the scan is over and _keyword_scoring returned a dict
Scored ==
    pc = "returned" /\ "score" \in stage1.keys

\* the category of a dict is unset: no such key, or None
CategoryUnset(d) ==
    "category" \notin d.keys \/ d.category = PyNone

\* some keyword of the list occurs in the lower-cased, space-joined evidence
EvidenceMentions(keywords) ==
    KeywordsIn(keywords, Lower(Join(evidence, Space))) # {}

-----------------------------------------------------------------------------
(* properties of the scan *)

\* C1: in every scan the validator is invoked exactly once when the
\* keyword-stage score is in the inclusive band [30, 70], and never when the
\* score is below 30 or above 70 (or when keyword scoring returned nothing).
C1_ValidatorOnceInBand ==
    /\ llmCalls \in {0, 1}
    /\ llmCalls = 1 => ("score" \in stage1.keys /\ 30 <= stage1.score /\ stage1.score <= 70)
    /\ pc = "returned" =>
         llmCalls = (IF "score" \in stage1.keys /\ 30 <= stage1.score /\ stage1.score <= 70
                     THEN 1 ELSE 0)

\* a scan with keyword-stage score exactly 70 has returned, the validator
\* having run once
C1_Witness ==
    Scored /\ stage1.score = 70 /\ llmCalls = 1

\* C3: the score of the result a scan returns is an integer in [0, 100],
\* whatever the number of keyword matches and whether or not the validator ran.
C3_ScoreInRange ==
    pc = "returned" => returned.score \in 0..100

\* a scan whose keyword matches add up to more than 100 points has returned
C3_Witness ==
    Scored /\ ArticlesWellFormed /\ GivenPoints > 100 /\ returned.score = 100

\* C4: in every result a scan returns, has_ai is true iff the score of that
\* result is >= 40, also after the validator stage and on the error path.
C4_HasAiIffScore40 ==
    pc = "returned" => (returned.has_ai <=> returned.score >= 40)

\* a result whose score went through the validator stage and is exactly 40
C4_Witness ==
    Scored /\ llmCalls = 1 /\ returned.score = 40 /\ returned.has_ai

\* C5: when neither the description nor the news carries a tier-1 or tier-2
\* keyword, the result has score 0, has_ai false and no category.
C5_NoKeywordsCategoryUnset ==
    (Scored /\ NoKeywordGiven) =>
        (returned.score = 0 /\ ~returned.has_ai /\ CategoryUnset(returned))

\* C6: when the profile fetch and the news fetch both fail, the scan returns
\* score 0, has_ai false, no category and empty evidence.
C6_BothSourcesFail ==
    (pc = "returned" /\ profileResp.status = "error" /\ newsResp.status = "error") =>
        /\ returned.score = 0
        /\ ~returned.has_ai
        /\ CategoryUnset(returned)
        /\ returned.evidence = <<>>

\* C7: a scan never raises to its caller: it always ends by returning a
\* result for its ticker; when an exception leaves keyword scoring, that
\* result carries an error field, score 0 and has_ai false; and a scan
\* changes no other ticker's result in the batch.
C7_NeverRaisesIsolated ==
    /\ [](pc # "raised")
    /\ [](pc = "returned" =>
             /\ returned.ticker = ticker
             /\ results[ticker] = returned
             /\ {"ticker", "score", "has_ai"} \subseteq returned.keys
             /\ "score" \notin stage1.keys =>
                    ("error" \in returned.keys /\ returned.score = 0 /\ ~returned.has_ai))
    /\ [][\A t \in Tickers : t # ticker' => results'[t] = results[t]]_vars

\* a scan has returned an error result while another ticker's earlier,
\* scored result is still in place
C7_Witness ==
    /\ pc = "returned"
    /\ "error" \in returned.keys
    /\ \E t \in Tickers : t # ticker /\ "category" \in results[t].keys /\ results[t].score > 0

\* C8: the keyword-stage score is min(100, 10 per tier-1 keyword in the
\* description + 5 per tier-2 keyword in the description + per article among
\* the first 10: 10 if it has any tier-1 keyword, 5 if it has any tier-2).
C8_ScoreFormula ==
    (Scored /\ ArticlesWellFormed) =>
        stage1.score = (IF GivenPoints < 100 THEN GivenPoints ELSE 100)

\* eleven articles were returned, the eleventh with tier-1 keywords, and the
\* description alone has two tier-1 keywords
C8_Witness ==
    /\ Scored
    /\ Len(GivenArticles) = 11
    /\ GivenArticles[11] = ArticleTier1
    /\ GivenArticles[1] = ArticlePlain
    /\ stage1.score = 20

\* C9: the keyword-stage category is the first of ai_chip, ai_software,
\* ai_cloud with a category keyword occurring in the lower-cased evidence, and
\* ai_beneficiary when score > 0 and none occurs; a description with exactly
\* 'ai chip' and 'neural processor' and no news gives score 20, ai_chip,
\* has_ai false.
C9_CategoryFirstMatch ==
    /\ (Scored /\ stage1.score > 0) =>
          stage1.category =
             (IF EvidenceMentions(CategoryKeywords_ai_chip) THEN "ai_chip"
              ELSE IF EvidenceMentions(CategoryKeywords_ai_software) THEN "ai_software"
              ELSE IF EvidenceMentions(CategoryKeywords_ai_cloud) THEN "ai_cloud"
              ELSE "ai_beneficiary")
    /\ (Scored /\ profileResp.status = "data"
               /\ profileResp.description = JStr(DescChipExample)
               /\ GivenArticles = <<>>) =>
          (returned.score = 20 /\ returned.category = "ai_chip" /\ ~returned.has_ai)

\* a scan of a description with an ai_software keyword and an ai_chip keyword
\* has returned
C9_Witness ==
    /\ Scored
    /\ EvidenceMentions(CategoryKeywords_ai_chip)
    /\ EvidenceMentions(CategoryKeywords_ai_software)
    /\ stage1.category = "ai_chip"

\* C10: when the validator stage runs, its adjusted score is within 20 of the
\* keyword score, the result's score and category are the validator's, and
\* the rationale is appended to the evidence after ' | LLM: '.
C10_ValidatorReplaces ==
    (pc = "returned" /\ llmCalls = 1) =>
        /\ llm_result.adjusted_score \in (stage1.score - 20)..(stage1.score + 20)
        /\ returned.score = llm_result.adjusted_score
        /\ returned.category = llm_result.category
        /\ returned.evidence =
              stage1.evidence \o <<" ","|"," ","L","L","M",":"," ">> \o llm_result.reasoning

\* the validator stage ran on a result with evidence
C10_Witness ==
    /\ pc = "returned"
    /\ llmCalls = 1
    /\ stage1.evidence # <<>>
    /\ Len(returned.evidence) > Len(stage1.evidence)

-----------------------------------------------------------------------------
(* what a call on the universe was given and what it left *)

\* the step is a call of _update_trading_universe
UpsertStep ==
    call'.op = "upsert" /\ now' = now + 1

\* the step is a call of _get_trading_universe
QueryStep ==
    call'.op = "query" /\ now' = now + 1

\* the record key a ticker argument stands for, spelled out per argument
KeyOf(t) ==
    IF t = RawMcd THEN <<"M","C","D">> ELSE <<"N","V","D","A">>

\* a column of the record of ticker t, NULL when there is no such record
ColumnIn(tbl, t, column) ==
    IF \E r \in tbl : r.ticker = t
    THEN (CHOOSE r \in tbl : r.ticker = t)[column]
    ELSE Null

-----------------------------------------------------------------------------
(* properties of the universe store *)

\* C11: every successful upsert sets last_scanned of the record keyed by
\* the upper-cased, trimmed ticker to the current time, whatever fields the
\* input carries; spellings of one ticker address one record, and no other
\* record is touched
C11_LastScannedStamped ==
    [][UpsertStep /\ reply'.status = "ok" =>
         /\ \E r \in trading_universe' :
              r.ticker = KeyOf(call'.ticker) /\ r.last_scanned = <<now'>>
         /\ \A r \in trading_universe' :
              r.ticker # KeyOf(call'.ticker) => r \in trading_universe
         /\ \A r \in trading_universe :
              r.ticker # KeyOf(call'.ticker) => r \in trading_universe'
         /\ \A r1, r2 \in trading_universe' : r1.ticker = r2.ticker => r1 = r2]_vars

\* an upsert on 'NVDA' has stamped the record that an upsert on ' nvda '
\* filled before
C11_Witness ==
    /\ call.op = "upsert" /\ call.ticker = RawNvda /\ reply.status = "ok"
    /\ now >= 2
    /\ \E r \in trading_universe :
         /\ r.ticker = <<"N","V","D","A">>
         /\ r.notes = Some(NotesReview)
         /\ r.category = Some(CatAiSoftware)
         /\ r.last_scanned = <<now>>
    /\ Cardinality({r \in trading_universe : Upper(Strip(r.ticker)) = <<"N","V","D","A">>}) = 1

\* C12: across any sequence of upserts, a record's last_mention changes
\* only in an upsert whose applied score (the score it stores) is > 0: an
\* upsert with score 0 or without score never advances last_mention
C12_MentionOnlyWithScore ==
    [][UpsertStep =>
         \A t \in {r.ticker : r \in trading_universe'} :
            ColumnIn(trading_universe', t, "last_mention")
                    # ColumnIn(trading_universe, t, "last_mention")
               => /\ t = KeyOf(call'.ticker)
                  /\ call'.data.score.kind = "num"
                  /\ \E r \in trading_universe' : r.ticker = t /\ r.score > 0]_vars

\* C13: a successful upsert stamps deactivated_at with the current time
\* exactly when its input carries is_active and the value it applies is
\* false; an upsert that omits is_active or applies true leaves
\* deactivated_at as it was
C13_DeactivatedAtStamped ==
    [][UpsertStep /\ reply'.status = "ok" =>
         LET t == KeyOf(call'.ticker)
             inactive == \E r \in trading_universe' : r.ticker = t /\ ~r.is_active
         IN  IF call'.data.is_active # "absent" /\ inactive
             THEN ColumnIn(trading_universe', t, "deactivated_at") = <<now'>>
             ELSE ColumnIn(trading_universe', t, "deactivated_at")
                    = ColumnIn(trading_universe, t, "deactivated_at")]_vars

\* a record deactivated at time 1 was re-activated later, and a third upsert
\* has deactivated it again at the current time
C13_Witness ==
    /\ call.op = "upsert" /\ call.data = DataDeactivate /\ reply.status = "ok"
    /\ now = 3
    /\ \E r \in trading_universe :
         /\ r.ticker = KeyOf(call.ticker)
         /\ ~r.is_active
         /\ r.deactivated_at = <<3>>
         /\ r.last_mention = <<2>>

\* C14: for each of company_name, sector, category, score, is_active and
\* notes, an upsert whose input omits the field leaves the stored value of
\* an existing record unchanged
C14_PartialUpdate ==
    [][UpsertStep =>
         \A r \in trading_universe :
            r.ticker = KeyOf(call'.ticker) =>
               \E q \in trading_universe' :
                  /\ q.ticker = r.ticker
                  /\ \A c \in {"company_name", "sector", "category", "notes"} :
                        call'.data[c].kind = "absent" => q[c] = r[c]
                  /\ call'.data.score.kind = "absent" => q.score = r.score
                  /\ call'.data.is_active = "absent" => q.is_active = r.is_active]_vars

\* an upsert that carried nothing but is_active has deactivated a record
\* whose other fields an earlier upsert had set
C14_Witness ==
    /\ call.op = "upsert" /\ call.data = DataDeactivate /\ reply.status = "ok"
    /\ \E r \in trading_universe :
         /\ r.ticker = KeyOf(call.ticker)
         /\ ~r.is_active
         /\ r.notes = Some(NotesReview)
         /\ r.company_name = Some(NameNvidia)
         /\ r.score = 80
         /\ r.last_scanned = <<now>>

\* C15: applying the same ticker and the same fields twice yields the same
\* persisted record as applying them once, except for the refreshed
\* last_scanned
C15_IdempotentButLastScanned ==
    [][UpsertStep /\ call'.repeats /\ reply'.status = "ok" =>
         \A r \in trading_universe :
            r.ticker = KeyOf(call'.ticker) =>
               \E q \in trading_universe' :
                  q = [r EXCEPT !.last_scanned = q.last_scanned]]_vars

\* C15, amended: applying the same input twice yields the same record as
\* applying it once, except for the timestamps the upsert refreshes:
\* last_scanned, last_mention when the score is > 0, and deactivated_at
\* when the applied is_active is false
C15_IdempotentButTimestamps ==
    [][UpsertStep /\ call'.repeats /\ reply'.status = "ok" =>
         \A r \in trading_universe :
            r.ticker = KeyOf(call'.ticker) =>
               \E q \in trading_universe' :
                  /\ q = [r EXCEPT !.last_scanned = q.last_scanned,
                                   !.last_mention = q.last_mention,
                                   !.deactivated_at = q.deactivated_at]
                  /\ q.last_scanned = <<now'>>
                  /\ q.last_mention # r.last_mention =>
                        call'.data.score.kind = "num" /\ call'.data.score.halves > 0
                  /\ q.deactivated_at # r.deactivated_at =>
                        call'.data.is_active # "absent" /\ ~q.is_active]_vars

\* the same scored input was applied twice in a row: the score is as one
\* application left it and last_mention is that of the second application
C15_Witness ==
    /\ call.op = "upsert" /\ call.repeats /\ reply.status = "ok"
    /\ call.data = DataScore45
    /\ \E r \in trading_universe :
         /\ r.ticker = KeyOf(call.ticker)
         /\ r.score = 45
         /\ r.last_mention = <<now>>
         /\ r.last_scanned = <<now>>

\* C16: _update_trading_universe never raises: without a connected store,
\* with malformed JSON, with a field that cannot be converted and with a
\* failing store write it returns a failure message, and in the first three
\* cases the store holds exactly the records it held before
C16_UpsertNeverRaises ==
    [][UpsertStep =>
         /\ reply'.status \in {"ok", "error", "unconnected"}
         /\ (\/ ~supabase
             \/ call'.data.form # "object"
             \/ call'.data.score.kind \in {"badstr", "null"})
               => /\ reply'.status \in {"error", "unconnected"}
                  /\ trading_universe' = trading_universe
         /\ call'.answer \in {"refused", "unacknowledged"} => reply'.status = "error"]_vars

\* a score that cannot be converted was refused with a message, and the
\* records written before are still there
C16_Witness ==
    /\ call.op = "upsert" /\ call.data = DataScoreText /\ reply.status = "error"
    /\ supabase
    /\ \E r \in trading_universe : r.ticker = KeyOf(call.ticker) /\ r.last_scanned = <<now - 1>>

\* C17: deactivation is reversible: an upsert with is_active=true on a
\* record that an earlier upsert deactivated is accepted, and a query
\* filtered on is_active=true returns that record again
C17_DeactivationReversible ==
    [][/\ UpsertStep /\ reply'.status = "ok" /\ call'.data.is_active = "true"
          => \E r \in trading_universe' : r.ticker = KeyOf(call'.ticker) /\ r.is_active
       /\ QueryStep /\ reply'.status = "ok" /\ call'.filters = FiltersActive
          => \A r \in trading_universe :
                r.is_active /\ r.deactivated_at # Null => r \in Range(reply'.stocks)]_vars

\* a record deactivated at time 1 and re-activated at time 2 is among the
\* records a query on is_active=true returned
C17_Witness ==
    /\ call.op = "query" /\ call.filters = FiltersActive /\ reply.status = "ok"
    /\ \E r \in Range(reply.stocks) :
         /\ r.is_active
         /\ r.deactivated_at = <<1>>
         /\ r.last_scanned = <<2>>

\* C18: no scan, upsert, query, deactivation or bootstrap import removes a
\* record: the set of tickers never shrinks, and an upsert that carries
\* nothing but a false is_active changes is_active and deactivated_at, and
\* last_scanned as every upsert does, and nothing else
C18_NeverRemoved ==
    [][/\ \A r \in trading_universe : \E q \in trading_universe' : q.ticker = r.ticker
       /\ UpsertStep /\ reply'.status = "ok" /\ call'.data \in {DataDeactivate, DataActiveNull}
          => \A r \in trading_universe :
                r.ticker = KeyOf(call'.ticker) =>
                   [r EXCEPT !.is_active = FALSE, !.deactivated_at = <<now'>>,
                             !.last_scanned = <<now'>>] \in trading_universe']_vars

\* after an import and a scan, a record of the example universe was
\* deactivated: it is still there with its score, and so are all the others
C18_Witness ==
    /\ call.op = "upsert" /\ call.data = DataDeactivate /\ reply.status = "ok"
    /\ pc = "returned" /\ returned # NoResult
    /\ Cardinality(trading_universe) = 4
    /\ \E r \in trading_universe :
         /\ r.ticker = <<"M","C","D">> /\ ~r.is_active /\ r.score = 75
         /\ r.deactivated_at = <<now>>
    /\ \E r \in trading_universe :
         r.ticker = <<"N","V","D","A">> /\ r.notes = Some(SeedNotes)

\* the scores of a list of records
Scores(stocks) ==
    [i \in 1..Len(stocks) |-> stocks[i].score]

\* the records of the universe that satisfy every filter the query carried
Satisfying(filters) ==
    {r \in trading_universe :
        /\ filters.is_active = <<TRUE>> => r.is_active
        /\ filters.is_active = <<FALSE>> => ~r.is_active
        /\ filters.category # <<>> => r.category = filters.category
        /\ filters.min_score # <<>> => filters.min_score[1] <= r.score
        /\ filters.max_score # <<>> => r.score <= filters.max_score[1]}

\* C19: a query returns exactly the first `limit` (default 100) records, in
\* score-descending order, among the records that satisfy every filter it
\* carries, and count is the number of records returned; the filters
\* {is_active: true, min_score: 70, limit: 50} over active records scored
\* 90, 75, 60 and an inactive record scored 95 return [90, 75]
C19_QueryResult ==
    call.op = "query" /\ reply.status = "ok" =>
        LET stocks == reply.stocks
            limit == IF call.filters.limit = <<>> THEN 100 ELSE call.filters.limit[1]
            wanted == Satisfying(call.filters)
        IN  /\ Range(stocks) \subseteq wanted
            /\ \A i, j \in 1..Len(stocks) : i < j =>
                  stocks[i] # stocks[j] /\ stocks[i].score >= stocks[j].score
            /\ Len(stocks) = IF Cardinality(wanted) < limit THEN Cardinality(wanted) ELSE limit
            /\ \A r \in wanted \ Range(stocks) : \A q \in Range(stocks) : r.score <= q.score
            /\ reply.count = Len(stocks)
            /\ call.filters = FiltersExample /\ trading_universe = ExampleUniverse
                  => Scores(stocks) = <<90, 75>>

\* the example query was answered over the example universe
C19_Witness ==
    /\ call.op = "query" /\ reply.status = "ok"
    /\ call.filters = FiltersExample
    /\ trading_universe = ExampleUniverse
    /\ reply.count = 2

\* C20: a query with malformed filter JSON, or while the store is
\* unavailable, never raises and returns only an error result with no
\* records; no query changes any record
C20_QueryNeverRaises ==
    [][QueryStep =>
         /\ trading_universe' = trading_universe
         /\ reply'.status \in {"ok", "error", "unconnected"}
         /\ (~supabase \/ call'.filters.form = "malformed" \/ call'.answer = "refused")
               => /\ reply'.status \in {"error", "unconnected"}
                  /\ reply'.stocks = <<>>
                  /\ reply'.count = 0]_vars

\* a query with malformed filters on a connected store that holds records
\* returned the error result
C20_Witness ==
    /\ call.op = "query" /\ call.filters = FiltersMalformed /\ reply.status = "error"
    /\ supabase
    /\ trading_universe # {}

-----------------------------------------------------------------------------
(* properties of the bootstrap import *)

\* the step is a run of load_russell3000
ImportStep ==
    call'.op = "import" /\ now' = now + 1

\* the text of a cell as the import reads it
TextOf(cell) ==
    IF cell.kind = "str" THEN cell.val
    ELSE IF cell.kind = "nan" THEN <<"n","a","n">>
    ELSE <<>>

\* the ticker a row of the file lists, <<>> when it lists none
ListedTicker(row) ==
    IF Upper(Strip(TextOf(row.Ticker))) = <<"N","A","N">> THEN <<>>
    ELSE Upper(Strip(TextOf(row.Ticker)))

\* C22: a successful import keeps one record per ticker, with the company
\* name of the last row of the file for a ticker that appears several
\* times, adds no record for a row with an empty ticker, and seeds every
\* imported record with score 0, is_active=true and category=null
C22_ImportDedupAndSeed ==
    [][ImportStep /\ reply'.status = "ok" =>
         LET rows == call'.file.rows
         IN  /\ \A i \in 1..Len(rows) :
                   ListedTicker(rows[i]) # <<>> =>
                      \E r \in trading_universe' :
                         /\ r.ticker = ListedTicker(rows[i])
                         /\ r.score = 0 /\ r.is_active /\ r.category = <<>>
                         /\ (\A j \in (i + 1)..Len(rows) :
                                ListedTicker(rows[j]) # ListedTicker(rows[i]))
                               => r.company_name = <<Strip(TextOf(rows[i].Name))>>
             /\ \A r1, r2 \in trading_universe' : r1.ticker = r2.ticker => r1 = r2
             /\ {r.ticker : r \in trading_universe'}
                   = {r.ticker : r \in trading_universe}
                        \cup ({ListedTicker(rows[i]) : i \in 1..Len(rows)} \ {<<>>})]_vars

\* the holdings file, which lists NVDA twice and has a row without ticker,
\* was imported into an empty universe: two records, NVDA under the name
\* of its last row
C22_Witness ==
    /\ call.op = "import" /\ call.file = FileHoldings /\ reply.status = "ok"
    /\ Cardinality(trading_universe) = 2
    /\ \E r \in trading_universe :
         /\ r.ticker = <<"N","V","D","A">>
         /\ r.company_name = <<NameNvidia>>
         /\ r.score = 0 /\ r.is_active /\ r.category = <<>>
    /\ \E r \in trading_universe : r.ticker = <<"A","M","D">>

\* C29: after a successful import every ticker the file lists has a record
\* with score 0, category null, is_active true, last_scanned null and
\* last_mention null, also when the ticker had a scanned record before
C29_ImportOverwrites ==
    [][ImportStep /\ reply'.status = "ok" =>
         \A i \in 1..Len(call'.file.rows) :
            ListedTicker(call'.file.rows[i]) # <<>> =>
               \E r \in trading_universe' :
                  /\ r.ticker = ListedTicker(call'.file.rows[i])
                  /\ r.score = 0 /\ r.category = <<>> /\ r.is_active
                  /\ r.last_scanned = <<>> /\ r.last_mention = <<>>]_vars

\* NVDA was scored 80 and deactivated by upserts at times 1 and 2; the
\* import at time 3 has reset its score, flag and timestamps
C29_Witness ==
    /\ call.op = "import" /\ reply.status = "ok" /\ now = 3
    /\ \E r \in trading_universe :
         /\ r.ticker = <<"N","V","D","A">>
         /\ r.deactivated_at = <<2>>
         /\ r.score = 0 /\ r.category = <<>> /\ r.is_active
         /\ r.last_scanned = <<>> /\ r.last_mention = <<>>

-----------------------------------------------------------------------------
(* the scan and the universe store *)

\* C24: every scan makes at most three outbound calls (profile, news,
\* validator) and is followed by one write of its result to the universe
\* store, so that the scanned ticker has a record whose last_scanned is the
\* time of the scan
C24_ScanWritesStore ==
    call.op = "scan" /\ pc = "returned" =>
        /\ (IF profileResp = NoResponse THEN 0 ELSE 1)
             + (IF newsResp = NoResponse THEN 0 ELSE 1) + llmCalls <= 3
        /\ \E r \in trading_universe :
              r.ticker = Upper(Strip(call.ticker)) /\ r.last_scanned = <<now>>

-----------------------------------------------------------------------------
(* properties of a scan with a failing source *)

\* the profile request raised, or the scoring of its description did
ProfileFailed ==
    \/ profileResp.status = "error"
    \/ profileResp.status = "data" /\ LowerRaises(profileResp.description)

\* the news request raised
NewsFailed ==
    newsResp.status = "error"

\* the number of articles scored: the first 10, up to the first that raises
ArticlesKept ==
    LET n == IF Len(GivenArticles) < 10 THEN Len(GivenArticles) ELSE 10
        raising == {i \in 1..n : ArticleRaises(GivenArticles[i])}
    IN  IF raising = {} THEN n
        ELSE (CHOOSE i \in raising : \A j \in raising : i <= j) - 1

\* the points the description contributes
DescriptionPoints ==
    10 * Cardinality(KeywordsIn(Tier1Keywords, GivenDescription))
    + 5 * Cardinality(KeywordsIn(Tier2Keywords, GivenDescription))

\* the evidence the description contributes
DescriptionMentions ==
    LET mentioned(k) == Contains(k, GivenDescription)
    IN  [i \in 1..Len(SelectSeq(Tier1Keywords \o Tier2Keywords, mentioned)) |->
            EvDescriptionPrefix
              \o SelectSeq(Tier1Keywords \o Tier2Keywords, mentioned)[i]
              \o EvDescriptionSuffix]

\* the points the first n articles contribute
NewsPoints(n) ==
    SumOver([i \in 1..n |-> ArticlePoints(GivenArticles[i])], n)

RECURSIVE NewsMentions(_)
\* the evidence the first n articles contribute: one entry per article with
\* a tier-1 keyword, naming the first such keyword of the list
NewsMentions(n) ==
    IF n = 0 THEN <<>>
    ELSE LET found == KeywordsIn(Tier1Keywords, ArticleText(GivenArticles[n]))
         IN  NewsMentions(n - 1)
               \o (IF found = {} THEN <<>>
                    ELSE <<EvNewsPrefix
                             \o Tier1Keywords[CHOOSE i \in found : \A j \in found : i <= j]
                             \o EvNewsSuffix>>)

\* the keyword stage returned this many points with this evidence, and the
\* scan passes them on (to the caller, or to the validator stage)
Contributed(points, mentions) ==
    /\ stage1.score = (IF points < 100 THEN points ELSE 100)
    /\ evidence = mentions
    /\ stage1.evidence = Join(Take(mentions, 5), EvidenceSeparator)
    /\ llmCalls = 0 => (returned.score = stage1.score /\ returned.evidence = stage1.evidence)

\* C26: when exactly one of the profile fetch and the news fetch fails, the
\* score and the evidence of the scan are those the other source contributes;
\* when an article raises part-way through the news, the points of the
\* description and of the articles before it are kept.
C26_PartialDegradation ==
    Scored =>
        /\ (ProfileFailed /\ ~NewsFailed) =>
               Contributed(NewsPoints(ArticlesKept), NewsMentions(ArticlesKept))
        /\ (NewsFailed /\ ~ProfileFailed) =>
               Contributed(DescriptionPoints, DescriptionMentions)
        /\ ~ArticlesWellFormed =>
               Contributed(DescriptionPoints + NewsPoints(ArticlesKept),
                           DescriptionMentions \o NewsMentions(ArticlesKept))

\* the second of three articles raised after a description with two tier-1
\* keywords and a first article with tier-1 keywords were scored
C26_Witness ==
    /\ Scored
    /\ DescriptionPoints = 20
    /\ Len(GivenArticles) = 3
    /\ ArticleRaises(GivenArticles[2])
    /\ ArticlePoints(GivenArticles[1]) = 10
    /\ ArticlePoints(GivenArticles[3]) = 10
    /\ stage1.score = 30

-----------------------------------------------------------------------------
(* properties of the keyword tiers and the categories *)

RECURSIVE Erase(_, _)
\* a text with every occurrence of a keyword taken out
Erase(k, text) ==
    IF Len(text) < Len(k) THEN text
    ELSE IF SubSeq(text, 1, Len(k)) = k
    THEN Erase(k, SubSeq(text, Len(k) + 1, Len(text)))
    ELSE <<text[1]>> \o Erase(k, Tail(text))

\* a JSON string with a keyword added at its end, or with its occurrences
\* removed; null and absent values are left as they are
Vary(j, k, change) ==
    IF j.kind # "str" THEN j
    ELSE IF change = "added" THEN JStr(j.val \o Space \o k)
    ELSE JStr(Erase(k, Lower(j.val)))

\* an article with the change made in its headline and its summary
VaryArticle(article, k, change) ==
    Article(Vary(article.headline, k, change), Vary(article.summary, k, change))

\* the news of the scan with the change made in every article
VaryArticles(k, change) ==
    [i \in 1..Len(GivenArticles) |-> VaryArticle(GivenArticles[i], k, change)]

\* the change leaves the tier-1 and tier-2 matches of every text as they were
SameMatches(k, change) ==
    /\ KeywordsIn(Tier1Keywords \o Tier2Keywords,
                  GetLower(Vary(profileResp.description, k, change)))
          = KeywordsIn(Tier1Keywords \o Tier2Keywords, GetLower(profileResp.description))
    /\ \A i \in 1..Len(GivenArticles) :
          KeywordsIn(Tier1Keywords \o Tier2Keywords,
                     ArticleText(VaryArticle(GivenArticles[i], k, change)))
            = KeywordsIn(Tier1Keywords \o Tier2Keywords, ArticleText(GivenArticles[i]))

\* what the keyword stage makes of the responses of this scan with the
\* change made in the description and the news
Rescored(k, change) ==
    LET description == Vary(profileResp.description, k, change)
        acc0 == [score |-> 0, evidence |-> <<>>]
        acc1 == IF profileResp.status = "data" /\ ~LowerRaises(description)
                THEN ScoreDescription(GetLower(description), acc0)
                ELSE acc0
        acc2 == IF newsResp.status = "list"
                THEN ScoreNews(VaryArticles(k, change), acc1)
                ELSE acc1
    IN  KeywordResult(ticker, company_name, sector, acc2.score, acc2.evidence)

\* C27: tier-3 keywords never affect a scan: adding a tier-3 keyword to the
\* description and the news, or removing its occurrences from them, without
\* changing their tier-1 and tier-2 matches, leaves the score, the category
\* and the evidence of the keyword stage unchanged.
C27_Tier3Ignored ==
    Scored =>
        \A k \in Range(Tier3Keywords), change \in {"added", "removed"} :
            SameMatches(k, change) =>
                \A rescored \in {Rescored(k, change)} :
                    /\ rescored.score = stage1.score
                    /\ rescored.category = stage1.category
                    /\ rescored.evidence = stage1.evidence

\* a scan of a description with tier-3 keywords only and of news with a
\* tier-3 article after a tier-1 article has returned
C27_Witness ==
    /\ Scored
    /\ profileResp.status = "data"
    /\ KeywordsIn(Tier3Keywords, GivenDescription) # {}
    /\ Len(GivenArticles) = 2
    /\ KeywordsIn(Tier3Keywords, ArticleText(GivenArticles[2])) # {}
    /\ stage1.score = 10
    /\ SameMatches(Tier3Keywords[1], "removed")
    /\ Erase(Tier3Keywords[1], GivenDescription) # GivenDescription

\* the evidence strings the keyword stage can build
EvidenceStrings ==
    {DescriptionEvidence(k) : k \in Range(Tier1Keywords \o Tier2Keywords)}
    \cup {NewsEvidence(k) : k \in Range(Tier1Keywords)}

\* no ai_cloud keyword occurs in an evidence string, or across two of them
\* joined by a space
NoCloudKeywordInEvidence ==
    \A e1 \in EvidenceStrings, e2 \in EvidenceStrings :
        KeywordsIn(CategoryKeywords_ai_cloud, Lower(Join(<<e1, e2>>, Space))) = {}

\* C28: the category of the keyword stage is always one of ai_chip,
\* ai_software and ai_beneficiary, never ai_cloud or ai_infrastructure: no
\* evidence string built from a tier-1 or tier-2 keyword contains an ai_cloud
\* keyword, and ai_infrastructure has no keywords.
C28_CategoryNeverCloud ==
    /\ NoCloudKeywordInEvidence
    /\ "ai_infrastructure" \notin Range(CategoryOrder)
    /\ Scored => stage1.category \in {"ai_chip", "ai_software", "ai_beneficiary"}

\* a scan of a description with ai_cloud keywords and a tier-2 keyword has
\* returned
C28_Witness ==
    /\ Scored
    /\ KeywordsIn(CategoryKeywords_ai_cloud, GivenDescription) # {}
    /\ stage1.score > 0
    /\ stage1.category = "ai_beneficiary"

-----------------------------------------------------------------------------
(* properties of concurrent upserts *)

\* both threads have returned
RaceOver ==
    \A w \in Threads : inflight[w].pc = "returned"

\* the threads whose write the store carried out on the record of key t
\* with a value for column c
Writers(t, c) ==
    {w \in Threads : /\ inflight[w].written
                     /\ KeyOf(inflight[w].ticker) = t
                     /\ c \in inflight[w].upsert_data.cols}

\* the value of a column with its time of day left out
Masked(c, v) ==
    IF c \in {"last_scanned", "last_mention", "deactivated_at"}
    THEN (IF v = Null THEN "null" ELSE "set")
    ELSE v

\* column c of the record of key t after the two upserts ran one after the
\* other, the thread named last being the second
SerialColumn(t, c, last) ==
    IF last \in Writers(t, c) THEN inflight[last].upsert_data.row[c]
    ELSE IF Writers(t, c) # {}
    THEN inflight[CHOOSE w \in Writers(t, c) : TRUE].upsert_data.row[c]
    ELSE IF HasRow(started, t) THEN RowOf(started, t)[c]
    ELSE DefaultRow(t)[c]

\* the table is the one the serial order ending with thread last leaves,
\* but for the values of the timestamps
SerialOutcome(last) ==
    /\ TickersOf(trading_universe) =
          TickersOf(started) \cup {KeyOf(inflight[w].ticker) : w \in {w \in Threads : inflight[w].written}}
    /\ \A r \in trading_universe :
          \A c \in {"company_name", "sector", "category", "score", "is_active", "notes",
                     "last_scanned", "last_mention", "deactivated_at"} :
              Masked(c, r[c]) = Masked(c, SerialColumn(r.ticker, c, last))

\* C23: two concurrent upserts on different tickers leave, in every
\* interleaving, the same table but for the values of the timestamps; two
\* upserts racing on one ticker leave the record one of the two serial
\* orders leaves (the last writer wins).
C23_ConcurrentUpserts ==
    RaceOver =>
        IF KeyOf(inflight[1].ticker) # KeyOf(inflight[2].ticker)
        THEN SerialOutcome(1) /\ SerialOutcome(2)
        ELSE SerialOutcome(1) \/ SerialOutcome(2)

\* two upserts raced on one record, each prepared before either was written:
\* the first to be prepared was written last and its score stands, over the
\* name and the notes of the other
C23_Witness ==
    /\ RaceOver
    /\ inflight[1].written /\ inflight[2].written
    /\ inflight[1].data = DataScore45 /\ inflight[2].data = DataFull
    /\ KeyOf(inflight[1].ticker) = KeyOf(inflight[2].ticker)
    /\ inflight[1].upsert_data.row.last_scanned = <<1>>
    /\ \E r \in trading_universe :
          r.score = 45 /\ r.notes = Some(NotesReview) /\ r.last_scanned = <<1>>

-----------------------------------------------------------------------------
(* properties of the dashboard's alerts *)

\* C30: when two concurrent add_alert requests both return 201, both alerts
\* are in the alerts file afterwards.
C30_NoLostAlert ==
    (\A r \in Requests : add_alert[r].status = 201) =>
        \A r \in Requests : add_alert[r].new_alert \in Range(alerts_file.alerts)

-----------------------------------------------------------------------------
(* properties of the promotion rules *)

\* C21: the promotion rules are order-insensitive: in whatever order the
\* three rules are applied to a record within one cycle, the resulting
\* watchlist membership and is_active are the same, namely those of the
\* order in which the rules are listed.
C21_OrderInsensitive ==
    rules_left = {} =>
        /\ curated.watchlist = Prune(Demote(Promote(cycle_start))).watchlist
        /\ curated.is_active = Prune(Demote(Promote(cycle_start))).is_active

-----------------------------------------------------------------------------
(* properties of the EDGAR search *)

\* C25: _fetch_edgar_ai_mentions never raises and always returns a count and
\* a list of snippets: count 0 and no snippets when no filing matches, count 0
\* and an error field when the request fails or times out.
C25_EdgarNeverRaises ==
    /\ edgar.pc # "raised"
    /\ edgar.pc = "returned" =>
          /\ {"count", "snippets"} \subseteq edgar.outcome.keys
          /\ edgar.outcome.count \in Nat
          /\ DOMAIN edgar.outcome.snippets = 1..Len(edgar.outcome.snippets)
          /\ edgar.response = EdgarNoFilings =>
                 (edgar.outcome.count = 0 /\ edgar.outcome.snippets = <<>>)
          /\ edgar.response.status = "error" =>
                 (edgar.outcome.count = 0 /\ "error" \in edgar.outcome.keys)

\* a call whose request timed out has returned
C25_Witness ==
    /\ edgar.pc = "returned"
    /\ edgar.response.status = "error"
    /\ edgar.response.message = MsgTimeout
    /\ "error" \in edgar.outcome.keys

=============================================================================
